---------------------------- MODULE Spec2Model ----------------------------
(***************************************************************************)
(* A model of the observable store of the Monolithic template              *)
(* (src/Monolithic/src/store/state.js, class AppState): the document, the  *)
(* subscriber and middleware lists, setState with its middleware pipeline  *)
(* and its synchronous fan-out, getState, persist/restore and reset.       *)
(*                                                                         *)
(* JavaScript runs one call at a time, so a call that is in progress is a  *)
(* frame on `stack`; the operations a client starts are enabled only when  *)
(* the stack is empty, and a callback that calls back into the store       *)
(* pushes a frame on top of the one that invoked it.                       *)
(***************************************************************************)
EXTENDS Integers, Sequences, FiniteSets, TLC

(***************************************************************************)
(* Bounds of the model.                                                    *)
(***************************************************************************)
\* subscribe() calls over the life of one store
MaxSubscribe == 2
\* use() calls over the life of one store
MaxUse == 2
\* subscribe() and use() calls on a store that is persisted and restored
MaxPersistSubscribe == 1
MaxPersistUse == 1

(***************************************************************************)
(* JavaScript values.  A document or a partial is a function from its own  *)
(* keys to values; a key that is not in the domain reads as undefined.     *)
(***************************************************************************)
Null == "null"
Undefined == "undefined"
\* a truthy value whose typeof is not "string" (the number 42)
NotAString == "#42"
EmptyObject == <<>>

IsString(v) == v \notin {Null, Undefined, NotAString}
Truthy(v) == v \notin {Null, Undefined, ""}

\* constructor(): this.state
InitialState ==
  [currentSection |-> "home",
   user |-> Null,
   notifications |-> <<>>,
   loading |-> FALSE,
   formData |-> EmptyObject,
   stats |-> [projects |-> 0, components |-> 0, satisfaction |-> 0]]

\* the partials a caller passes to setState
Partials ==
  { [loading |-> TRUE],
    [currentSection |-> "about", loading |-> FALSE],
    [user |-> "alice"],
    [theme |-> "dark"],
    [currentSection |-> NotAString] }

\* the keys whose values are strings, null or undefined in this model
ScalarKeys == {"currentSection", "user", "theme"}

\* obj[key] !== undefined
IsDefined(obj, key) ==
  /\ key \in DOMAIN obj
  /\ (key \in ScalarKeys => obj[key] # Undefined)

\* { ...a, ...b } with the keys of b taken from a instead (a mutation of Merge)
MergeFirstWins(a, b) ==
  [k \in DOMAIN a \cup DOMAIN b |-> IF k \in DOMAIN a THEN a[k] ELSE b[k]]

\* { ...a, ...b }
Merge(a, b) ==
  [k \in DOMAIN a \cup DOMAIN b |-> IF k \in DOMAIN b THEN b[k] ELSE a[k]]

\* const copy = { ...obj }; delete copy[key]
Without(obj, key) == [k \in DOMAIN obj \ {key} |-> obj[k]]

\* { ...this.state }: a new object with the same keys and values
ShallowCopy(obj) == [k \in DOMAIN obj |-> obj[k]]

(***************************************************************************)
(* Callbacks and middlewares a client may register.  "observer" only reads *)
(* its arguments; "thrower" throws; "unsubObserver" calls an unsubscribe   *)
(* function of "observer"; "setter" calls setState({loading: false}) when  *)
(* the document it receives has loading true.                              *)
(***************************************************************************)
Callbacks == {"observer", "thrower", "unsubObserver", "setter"}

\* "logging" and "validation" are the two middlewares of state.js; "silent"
\* returns nothing, "stamp" returns a new partial with currentSection set to
\* a non-string, "throwing" throws.
Middlewares == {"logging", "validation", "silent", "stamp", "throwing"}

\* what one middleware call gives back: a partial, nothing, or an exception
Returns(v) == [kind |-> "value", value |-> v]
ReturnsNothing == [kind |-> "nothing", value |-> EmptyObject]
Throws == [kind |-> "throw", value |-> EmptyObject]

\* loggingMiddleware(prevState, updates)
LoggingMiddleware(prevState, updates) == Returns(updates)

\* validationMiddleware(prevState, updates)
ValidationMiddleware(prevState, updates) ==
  IF /\ "currentSection" \in DOMAIN updates
     /\ Truthy(updates["currentSection"])
     /\ ~IsString(updates["currentSection"])
  THEN Returns(Without(updates, "currentSection"))
  ELSE Returns(updates)

\* middleware(prevState, processedUpdates)
MiddlewareResult(mw, prevState, updates) ==
  CASE mw = "logging" -> LoggingMiddleware(prevState, updates)
    [] mw = "validation" -> ValidationMiddleware(prevState, updates)
    [] mw = "silent" -> ReturnsNothing
    [] mw = "stamp" -> Returns(Merge(updates, [currentSection |-> NotAString]))
    [] mw = "throwing" -> Throws

\* the pending partial is replaced whatever the middleware gave back (a
\* mutation of NextUpdates)
NextUpdatesAlwaysReplaced(pending, result) == result.value

\* processedUpdates = middleware(prevState, processedUpdates) || processedUpdates
NextUpdates(pending, result) ==
  IF result.kind = "value" THEN result.value ELSE pending

(***************************************************************************)
(* The state of the program.                                               *)
(***************************************************************************)
VARIABLES
  state,         \* this.state, the document
  subscribers,   \* this.subscribers: records [cb, ticket]; ticket numbers the
                 \* subscribe() call that pushed the entry (history only)
  middlewares,   \* this.middlewares
  stack,         \* the calls in progress, the innermost last
  outcome,       \* how the last call a client made ended
  issued,        \* history: issued[t] is the callback of the t-th subscribe()
  unsubCalled,   \* history: the tickets whose unsubscribe function was called
  dead,          \* history: the callbacks unsubscribed since they were last
                 \* subscribed
  lastWrite,     \* history: per key, the value of the last partial passed to
                 \* setState that contained it (kept while no middleware is
                 \* registered)
  held,          \* the object a client got from getState()
  storage,       \* localStorage["appState"]
  timers,        \* the setTimeout callbacks that have not run yet, in the
                 \* order they were scheduled
  clock,         \* the last reading of Date.now()
  added,         \* history: the addNotification calls a client made
  forms,         \* FormManager.forms: form id -> configuration
  submissions,   \* the handleSubmit calls in progress
  submitted,     \* history: the number of handleSubmit calls on a
                 \* registered form so far
  finished,      \* history: the handleSubmit calls that ran their finally
  lastCall,      \* history: the last validateForm or handleSubmit call a
                 \* client made and what it returned
  notifier,      \* the NotificationManager: the text and the classes of its
                 \* region, activeNotifications and, as history, its calls
  nav,           \* the Navigation, the sections of the page, the session
                 \* history of the browser and the scroll position
  spa,           \* the SPAApp, the elements of its page and its requests
  listeners,     \* the submit listeners bound to the form elements and the
                 \* submit event being dispatched
  counters,      \* the counter demos: their models, views and listeners
  server,        \* the static file servers: the requests they are handling
                 \* and the responses they have written
  launch         \* the start of the Monolithic dev server: its argument, the
                 \* ports in use and the port it came to listen on

\* the store without its document
storeVars == <<subscribers, middlewares, stack, outcome, issued, unsubCalled,
               dead, lastWrite, held, storage>>
\* the timers and the clock
timeVars == <<timers, clock, added>>
\* the form coordinator
formVars == <<forms, submissions, submitted, finished, lastCall, listeners>>
\* the components of the pages
uiVars == <<notifier, nav, spa>>
\* the counter demos and the servers
siteVars == <<counters, server, launch>>

vars == <<state, subscribers, middlewares, stack, outcome, issued, unsubCalled,
          dead, lastWrite, held, storage, timers, clock, added, forms,
          submissions, submitted, finished, lastCall, notifier, nav, spa,
          listeners, counters, server, launch>>

NoObject == [has |-> FALSE, obj |-> EmptyObject, alias |-> FALSE]
NoItem == [kind |-> "none", obj |-> EmptyObject]
NoCall == [op |-> "none", form |-> "", result |-> FALSE, visited |-> {}]

\* new NotificationManager(): the region of the page is empty; calls, last,
\* before, touched and shown are history (the number of show calls, the
\* arguments of the last one, the region as that call found it, whether
\* hide, clear or destroy was called after it, and the identifiers
\* handleNotifications has displayed)
NewNotifier ==
  [text |-> "", classes |-> {"notification"}, active |-> {}, calls |-> 0,
   last |-> [message |-> "", type |-> "", duration |-> 0],
   before |-> [text |-> "", classes |-> {}], touched |-> FALSE,
   shown |-> <<>>]

\* new Navigation() on a page that was just loaded: "home" is shown, the
\* session history has the entry of the page load (its state is null) and
\* the page is at its top.  pos is the section the scroll position lies in
\* and target the one a smooth scroll is heading for.  explicit, manual and
\* event are history: the section of the last explicit navigation or
\* popstate event, whether the user has scrolled since, and the last
\* handler that ran
NewNavigation ==
  [currentSection |-> "home", active |-> {"home"}, entries |-> <<Null>>,
   index |-> 1, pos |-> 1, target |-> 1, ticking |-> FALSE,
   explicit |-> "home", manual |-> FALSE, event |-> "none"]

\* this.currentData before any data arrived, and after clearResults
NoData == [type |-> "", items |-> 0]

\* new SPAApp() on a page none of whose radio buttons is checked: nothing is
\* displayed and no request has been sent.  requests are the fetches in
\* flight, each with the data type of its endpoint; sent, settled and event
\* are history (the number of requests sent, the last request that settled
\* and the last handler that ran)
NewSPAApp ==
  [currentDataType |-> Null, currentData |-> NoData, checked |-> Null,
   loading |-> FALSE, disabled |-> FALSE, errorShown |-> FALSE,
   errorMessage |-> <<>>, resultsShown |-> FALSE, title |-> NoData,
   layout |-> "", requests |-> <<>>, sent |-> 0,
   settled |-> [n |-> 0, type |-> "", outcome |-> ""], event |-> "none"]

\* the form elements before a FormManager exists: bound[id] is the number
\* of submit listeners on the form, form and left are the submit event
\* being dispatched and the listeners it has still to call; events and
\* started are history (the number of submit events so far and the
\* handleSubmit calls the last one started)
NoListeners ==
  [bound |-> EmptyObject, form |-> "", left |-> 0, events |-> 0,
   started |-> {}]

\* String(count) for an integer: the characters of its decimal numeral
DigitChars == <<"0", "1", "2", "3", "4", "5", "6", "7", "8", "9">>
RECURSIVE Numeral(_)
Numeral(n) ==
  IF n < 10 THEN <<DigitChars[n + 1]>>
  ELSE Numeral(n \div 10) \o <<DigitChars[(n % 10) + 1]>>
StringOf(n) == IF n < 0 THEN <<"-">> \o Numeral(-n) ELSE Numeral(n)

\* the three counter pages once their scripts have run: each model holds 0
\* and each view was rendered with it; the view model of the MVVM page has
\* the listener of the view, called once.  clicks, increments, decrements
\* and, in a listener, changes (the changes since it subscribed) are history
NewListener(kind, count) ==
  [kind |-> kind, calls |-> 1, last |-> count, changes |-> 0]
NewCounters ==
  [mvc |-> [count |-> 0, text |-> StringOf(0), clicks |-> 0],
   mvp |-> [count |-> 0, text |-> StringOf(0), clicks |-> 0],
   mvvm |-> [count |-> 0, text |-> StringOf(0), increments |-> 0,
             decrements |-> 0, listeners |-> <<NewListener("render", 0)>>]]

\* the servers before a request arrived
NoRequests == [requests |-> <<>>]
\* the dev server before main() ran; occupied holds the ports that cannot
\* be bound; inUse (those ports when main started) and taken (whether
\* another process took the chosen port before the server bound it) are
\* history
NotLaunched ==
  [pc |-> "none", arg |-> <<>>, occupied |-> {}, preferred |-> 0,
   port |-> 0, tried |-> 0, exit |-> "none", warned |-> FALSE,
   inUse |-> {}, taken |-> FALSE]

Init ==
  /\ state = InitialState
  /\ subscribers = <<>>
  /\ middlewares = <<>>
  /\ stack = <<>>
  /\ outcome = "none"
  /\ issued = <<>>
  /\ unsubCalled = {}
  /\ dead = {}
  /\ lastWrite = EmptyObject
  /\ held = NoObject
  /\ storage = NoItem
  /\ timers = <<>>
  /\ clock = 0
  /\ added = <<>>
  /\ forms = EmptyObject
  /\ submissions = <<>>
  /\ submitted = 0
  /\ finished = {}
  /\ lastCall = NoCall
  /\ notifier = NewNotifier
  /\ nav = NewNavigation
  /\ spa = NewSPAApp
  /\ listeners = NoListeners
  /\ counters = NewCounters
  /\ server = NoRequests
  /\ launch = NotLaunched

Idle == stack = <<>>
Top == stack[Len(stack)]
Below == SubSeq(stack, 1, Len(stack) - 1)

(***************************************************************************)
(* subscribe, unsubscribe, use                                             *)
(***************************************************************************)
\* only the first entry that holds the callback is removed (a mutation of
\* RemoveCallback)
RECURSIVE RemoveFirst(_, _)
RemoveFirst(subs, cb) ==
  IF subs = <<>> THEN <<>>
  ELSE IF Head(subs).cb = cb THEN Tail(subs)
  ELSE <<Head(subs)>> \o RemoveFirst(Tail(subs), cb)

\* this.subscribers.filter((sub) => sub !== callback)
RemoveCallback(subs, cb) == SelectSeq(subs, LAMBDA s : s.cb # cb)

\* subscribe(callback)
Subscribe(cb) ==
  /\ UNCHANGED <<timeVars, formVars, uiVars, siteVars>>
  /\ Idle
  /\ Len(issued) < MaxSubscribe
  /\ subscribers' = Append(subscribers, [cb |-> cb, ticket |-> Len(issued) + 1])
  /\ issued' = Append(issued, cb)
  /\ dead' = dead \ {cb}
  /\ UNCHANGED <<state, middlewares, stack, outcome, unsubCalled, lastWrite,
                 held, storage>>

\* the function subscribe() returned for ticket t, called by the client
Unsubscribe(t) ==
  /\ UNCHANGED <<timeVars, formVars, uiVars, siteVars>>
  /\ Idle
  /\ subscribers' = RemoveCallback(subscribers, issued[t])
  /\ unsubCalled' = unsubCalled \cup {t}
  /\ dead' = dead \cup {issued[t]}
  /\ UNCHANGED <<state, middlewares, stack, outcome, issued, lastWrite, held,
                 storage>>

\* use(middleware)
Use(mw) ==
  /\ UNCHANGED <<timeVars, formVars, uiVars, siteVars>>
  /\ Idle
  /\ Len(middlewares) < MaxUse
  /\ middlewares' = Append(middlewares, mw)
  /\ lastWrite' = EmptyObject
  /\ UNCHANGED <<state, subscribers, stack, outcome, issued, unsubCalled, dead,
                 held, storage>>

(***************************************************************************)
(* setState.  A frame holds the locals of one call (prevState,             *)
(* processedUpdates, the arrays its two forEach loops walk and their       *)
(* positions) and, as history, what the call was given and what it has     *)
(* invoked so far.                                                         *)
(***************************************************************************)
\* the partial a history of writes gives after one more setState(updates)
RecordWrite(writes, updates) ==
  [k \in DOMAIN writes \cup DOMAIN updates |->
     IF k \in DOMAIN updates THEN updates[k] ELSE writes[k]]

\* setState(updates) up to the first middleware: const prevState = {...}
NewFrame(by, updates, keys) ==
  [op |-> "setState", by |-> by, pc |-> "middleware", keys |-> keys,
   updates |-> updates, prevState |-> ShallowCopy(state),
   processed |-> updates, mws |-> middlewares, i |-> 1,
   subs |-> <<>>, j |-> 1,
   docAtCall |-> state, subsAtCall |-> subscribers, deadAtStart |-> {},
   merged |-> FALSE, invoked |-> <<>>, trace |-> <<>>]

\* a client calls setState(updates)
SetStateCall(updates) ==
  /\ UNCHANGED <<timeVars, formVars, uiVars, siteVars>>
  /\ Idle
  /\ stack' = <<NewFrame("client", updates, {})>>
  /\ lastWrite' = IF middlewares = <<>> THEN RecordWrite(lastWrite, updates)
                  ELSE EmptyObject
  /\ UNCHANGED <<state, subscribers, middlewares, outcome, issued, unsubCalled,
                 dead, held, storage>>

\* this.middlewares.forEach(...): one middleware
MiddlewareStep ==
  /\ UNCHANGED <<timeVars, formVars, uiVars, siteVars>>
  /\ ~Idle
  /\ Top.pc = "middleware"
  /\ Top.i <= Len(Top.mws)
  /\ LET f == Top
         r == MiddlewareResult(f.mws[f.i], f.prevState, f.processed)
         e == [mw |-> f.mws[f.i], prev |-> f.prevState, given |-> f.processed,
               result |-> r]
     IN stack' = Append(Below,
          IF r.kind = "throw"
          THEN [f EXCEPT !.pc = "threw", !.trace = Append(@, e)]
          ELSE [f EXCEPT !.processed = NextUpdates(f.processed, r),
                         !.i = @ + 1, !.trace = Append(@, e)])
  /\ UNCHANGED <<state, subscribers, middlewares, outcome, issued, unsubCalled,
                 dead, lastWrite, held, storage>>

\* the subscribers are walked last to first (a mutation of FanOut)
FanOutReversed(subs) == [n \in 1..Len(subs) |-> subs[Len(subs) + 1 - n]]

\* this.subscribers.forEach(...): the array and the order it is walked in
FanOut(subs) == subs

\* this.state = { ...this.state, ...processedUpdates }, then the fan-out starts
MergeStep ==
  /\ UNCHANGED <<timeVars, formVars, uiVars, siteVars>>
  /\ ~Idle
  /\ Top.pc = "middleware"
  /\ Top.i > Len(Top.mws)
  /\ state' = Merge(state, Top.processed)
  /\ held' = [held EXCEPT !.alias = FALSE]
  /\ stack' = Append(Below, [Top EXCEPT !.pc = "notify",
                                        !.subs = FanOut(subscribers), !.j = 1,
                                        !.merged = TRUE, !.deadAtStart = dead])
  /\ UNCHANGED <<subscribers, middlewares, outcome, issued, unsubCalled, dead,
                 lastWrite, storage>>

\* both arguments are the current document (a mutation of CallbackArgs)
CallbackArgsPrevIsCurrent(f) == [new |-> state, prev |-> state]

\* callback(this.state, prevState)
CallbackArgs(f) == [new |-> state, prev |-> f.prevState]

\* a throwing subscriber is skipped and the loop goes on (a mutation of
\* AfterThrow)
AfterThrowIsolated(f) == [f EXCEPT !.j = @ + 1]

\* forEach has no try/catch: the exception leaves the loop and setState
AfterThrow(f) == [f EXCEPT !.pc = "threw"]

\* the tickets a callback that unsubscribes "observer" may hold
ObserverTickets == {t \in 1..Len(issued) : issued[t] = "observer"}

\* this.subscribers.forEach(...): one callback
NotifyStep ==
  /\ UNCHANGED <<timeVars, formVars, uiVars, siteVars>>
  /\ ~Idle
  /\ Top.pc = "notify"
  /\ Top.j <= Len(Top.subs)
  /\ LET s == Top.subs[Top.j]
         a == CallbackArgs(Top)
         e == [cb |-> s.cb, ticket |-> s.ticket, new |-> a.new, prev |-> a.prev,
               merged |-> Top.merged, wasDead |-> s.cb \in dead]
         f == [Top EXCEPT !.invoked = Append(@, e)]
         reenters == /\ s.cb = "setter"
                     /\ "loading" \in DOMAIN a.new
                     /\ a.new["loading"] = TRUE
         unsubs == s.cb = "unsubObserver" /\ ObserverTickets # {}
     IN /\ stack' =
             IF s.cb = "thrower" THEN Append(Below, AfterThrow(f))
             ELSE IF reenters
             THEN Below \o <<[f EXCEPT !.pc = "calling"],
                             NewFrame("subscriber", [loading |-> FALSE], {})>>
             ELSE Append(Below, [f EXCEPT !.j = @ + 1])
        /\ IF unsubs
           THEN \E t \in ObserverTickets :
                  /\ subscribers' = RemoveCallback(subscribers, "observer")
                  /\ unsubCalled' = unsubCalled \cup {t}
                  /\ dead' = dead \cup {"observer"}
           ELSE UNCHANGED <<subscribers, unsubCalled, dead>>
        /\ lastWrite' = IF reenters /\ middlewares = <<>>
                        THEN RecordWrite(lastWrite, [loading |-> FALSE])
                        ELSE lastWrite
  /\ UNCHANGED <<state, middlewares, outcome, issued, held, storage>>

\* the call has run its last subscriber
Finished(f) == f.pc = "notify" /\ f.j > Len(f.subs)

\* setState (or reset) returns to whoever called it; the console.log of
\* development mode changes nothing
Return ==
  /\ UNCHANGED <<timeVars, formVars, uiVars, siteVars>>
  /\ ~Idle
  /\ Finished(Top)
  /\ IF Len(stack) > 1
     THEN /\ stack' = Append(SubSeq(stack, 1, Len(stack) - 2),
                             [stack[Len(stack) - 1] EXCEPT !.pc = "notify",
                                                           !.j = @ + 1])
          /\ UNCHANGED outcome
     ELSE /\ stack' = <<>>
          /\ outcome' = "returned"
  /\ UNCHANGED <<state, subscribers, middlewares, issued, unsubCalled, dead,
                 lastWrite, held, storage>>

\* an exception leaves setState: it goes through a callback that called
\* setState, is caught by restore's try/catch, or reaches the client
Unwind ==
  /\ UNCHANGED <<timeVars, formVars, uiVars, siteVars>>
  /\ ~Idle
  /\ Top.pc = "threw"
  /\ IF Len(stack) > 1
     THEN /\ stack' = Append(SubSeq(stack, 1, Len(stack) - 2),
                             [stack[Len(stack) - 1] EXCEPT !.pc = "threw"])
          /\ UNCHANGED outcome
     ELSE /\ stack' = <<>>
          /\ outcome' = IF Top.by = "restore" THEN "returned" ELSE "threw"
  /\ UNCHANGED <<state, subscribers, middlewares, issued, unsubCalled, dead,
                 lastWrite, held, storage>>

\* reset(): the document is replaced and every subscriber is told, with {}
\* as the previous document
Reset ==
  /\ UNCHANGED <<timeVars, formVars, uiVars, siteVars>>
  /\ Idle
  /\ state' = InitialState
  /\ held' = [held EXCEPT !.alias = FALSE]
  /\ lastWrite' = EmptyObject
  /\ stack' = <<[NewFrame("client", EmptyObject, {}) EXCEPT
                   !.op = "reset", !.pc = "notify", !.prevState = EmptyObject,
                   !.mws = <<>>, !.subs = FanOut(subscribers),
                   !.merged = TRUE, !.deadAtStart = dead]>>
  /\ UNCHANGED <<subscribers, middlewares, outcome, issued, unsubCalled, dead,
                 storage>>

(***************************************************************************)
(* getState, and what a client does to the object it got                   *)
(***************************************************************************)
\* the document object itself is handed out (a mutation of GetStateResult)
GetStateAliased == [has |-> TRUE, obj |-> state, alias |-> TRUE]

\* getState(): { ...this.state }, an object of its own
GetStateResult == [has |-> TRUE, obj |-> ShallowCopy(state), alias |-> FALSE]

GetState ==
  /\ UNCHANGED <<timeVars, formVars, uiVars, siteVars>>
  /\ Idle
  /\ held' = GetStateResult
  /\ UNCHANGED <<state, subscribers, middlewares, stack, outcome, issued,
                 unsubCalled, dead, lastWrite, storage>>

\* what a client may do to a top-level key of an object
Edits == {"add", "remove", "replace"}
Edit(obj, e) ==
  CASE e = "add" -> Merge(obj, [injected |-> "x"])
    [] e = "remove" -> Without(obj, "user")
    [] e = "replace" -> Merge(obj, [currentSection |-> "edited"])

\* the client edits the object it holds; an object that is the document
\* object is the document
EditHeld(e) ==
  /\ UNCHANGED <<timeVars, formVars, uiVars, siteVars>>
  /\ Idle
  /\ held.has
  /\ held' = [held EXCEPT !.obj = Edit(@, e)]
  /\ state' = IF held.alias THEN Edit(state, e) ELSE state
  /\ UNCHANGED <<subscribers, middlewares, stack, outcome, issued, unsubCalled,
                 dead, lastWrite, storage>>

(***************************************************************************)
(* persist and restore.  The text under localStorage["appState"] is        *)
(* modelled by what JSON.parse makes of it.                                *)
(***************************************************************************)
EmptyText == [kind |-> "empty", obj |-> EmptyObject]
InvalidText == [kind |-> "invalid", obj |-> EmptyObject]
NullText == [kind |-> "null", obj |-> EmptyObject]
NumberText == [kind |-> "number", obj |-> EmptyObject]
ObjectText(obj) == [kind |-> "object", obj |-> obj]

\* JSON.stringify(obj), read back: a key whose value is undefined is left
\* out; every other value of this model (strings, booleans, null, numbers,
\* empty arrays and plain objects) is written and read back as it is
JSONStringify(obj) ==
  ObjectText([k \in {k \in DOMAIN obj : IsDefined(obj, k)} |-> obj[k]])

\* the key sets persist and restore are called with; the first is the default
KeySets == {{"user", "formData"}, {"currentSection", "theme"}}

\* what another script, another version of the page or the user may leave
\* under the key
ForeignObject == [currentSection |-> NotAString, user |-> "mallory"]
TamperedItems ==
  {NoItem, EmptyText, InvalidText, NullText, NumberText,
   ObjectText(ForeignObject)}

\* a key is kept only when its value is truthy (a mutation of Requested)
RequestedTruthy(obj, keys) ==
  [k \in {k \in keys : /\ k \in DOMAIN obj
                       /\ k \in ScalarKeys => Truthy(obj[k])
                       /\ k = "loading" => obj[k] = TRUE} |-> obj[k]]

\* keys.forEach((key) => { if (obj[key] !== undefined) out[key] = obj[key] })
Requested(obj, keys) ==
  [k \in {k \in keys : IsDefined(obj, k)} |-> obj[k]]

\* persist(keys); setItem may throw (quota, storage disabled), which is caught
Persist(keys, writes) ==
  /\ UNCHANGED <<timeVars, formVars, uiVars, siteVars>>
  /\ Idle
  /\ storage' = IF writes THEN JSONStringify(Requested(state, keys))
                ELSE storage
  /\ outcome' = "returned"
  /\ UNCHANGED <<state, subscribers, middlewares, stack, issued, unsubCalled,
                 dead, lastWrite, held>>

\* restore(keys) up to its setState call; getItem may throw, JSON.parse throws
\* on text that is not JSON, and reading a key of null throws: all are caught
Restore(keys, reads) ==
  /\ UNCHANGED <<timeVars, formVars, uiVars, siteVars>>
  /\ Idle
  /\ IF reads /\ storage.kind \in {"number", "object"}
     THEN LET parsed == IF storage.kind = "object" THEN storage.obj
                        ELSE EmptyObject
              upd == Requested(parsed, keys)
          IN /\ stack' = <<NewFrame("restore", upd, keys)>>
             /\ lastWrite' = IF middlewares = <<>>
                             THEN RecordWrite(lastWrite, upd)
                             ELSE EmptyObject
             /\ UNCHANGED outcome
     ELSE /\ outcome' = "returned"
          /\ UNCHANGED <<stack, lastWrite>>
  /\ UNCHANGED <<state, subscribers, middlewares, issued, unsubCalled, dead,
                 held, storage>>

\* something else writes or removes the item
Tamper(item) ==
  /\ UNCHANGED <<timeVars, formVars, uiVars, siteVars>>
  /\ Idle
  /\ storage' = item
  /\ UNCHANGED <<state, subscribers, middlewares, stack, outcome, issued,
                 unsubCalled, dead, lastWrite, held>>

(***************************************************************************)
(* Notifications and timers.  setTimeout callbacks wait in `timers` with   *)
(* the time each still has to wait; time passes in Tick steps that never   *)
(* jump over a timer that is due, and a due timer runs before time moves   *)
(* on.  The stores of these specifications have no subscriber and no       *)
(* middleware (both lists are as Init leaves them), so their setState is   *)
(* the merge alone.                                                        *)
(***************************************************************************)
\* addNotification calls a client makes
MaxNotifications == 3
\* handleSubmit calls on a registered form
MaxSubmits == 2
\* validators attached to one field
MaxValidators == 2

\* addNotification(message, type = "info", duration = 3000)
DefaultDuration == 3000
\* showError: duration || 5000
ErrorDuration == 5000
\* defaultSubmitHandler: setTimeout(resolve, 1000)
SubmitDelay == 1000

\* the durations a client passes to addNotification
Durations == {100, 200, 300}
\* the lengths of time one Tick lets pass while notifications wait
TickSteps == {50}
\* what Date.now() may give: the last reading again, or a later one
Readings == {clock, clock + 1}

\* the record addNotification builds; id and timestamp read the same clock
Notification(reading, message, type, duration) ==
  [id |-> reading, message |-> message, type |-> type, duration |-> duration,
   timestamp |-> reading]

\* the list is left as it is (a mutation of RemoveNotification)
RemoveNotificationKeepsAll(doc, id) == doc

\* removeNotification(id)
RemoveNotification(doc, id) ==
  Merge(doc, [notifications |->
                SelectSeq(doc["notifications"], LAMBDA n : n.id # id)])

\* addNotification up to its setState: [...this.state.notifications, n]
AddNotification(doc, n) ==
  Merge(doc, [notifications |-> Append(doc["notifications"], n)])

\* setTimeout(() => this.removeNotification(notification.id), duration); k
\* numbers the client's addNotification call (history only, 0 otherwise)
RemovalTimer(id, duration, k) ==
  [kind |-> "removeNotification", remaining |-> duration, id |-> id, n |-> k]

\* setTimeout(resolve, 1000) of the default submit handler of submission n
SubmitTimer(n) ==
  [kind |-> "submit", remaining |-> SubmitDelay, id |-> 0, n |-> n]

\* showNotification(message, type, duration) with window.appState set:
\* addNotification on a document and a timer list
ShowNotification(eff, reading, message, type, duration) ==
  [doc |-> AddNotification(eff.doc,
                           Notification(reading, message, type, duration)),
   timers |-> Append(eff.timers, RemovalTimer(reading, duration, 0))]

\* showSuccess(message): no duration given, the default applies
ShowSuccess(eff, reading, message) ==
  ShowNotification(eff, reading, message, "success", DefaultDuration)

\* showError(message): duration || 5000
ShowError(eff, reading, message) ==
  ShowNotification(eff, reading, message, "error", ErrorDuration)

\* setLoading(loading)
SetLoading(doc, loading) == Merge(doc, [loading |-> loading])

\* updateFormData(formId, data)
UpdateFormData(doc, formId, data) ==
  LET old == IF formId \in DOMAIN doc["formData"]
             THEN doc["formData"][formId] ELSE EmptyObject
  IN Merge(doc, [formData |->
                   Merge(doc["formData"],
                         [id \in {formId} |-> Merge(old, data)])])

\* the entry of the form is kept (a mutation of ClearFormData)
ClearFormDataKeepsEntry(doc, formId) == doc

\* clearFormData(formId)
ClearFormData(doc, formId) ==
  Merge(doc, [formData |-> Without(doc["formData"], formId)])

\* the timer list without its i-th entry
RemoveAt(seq, i) == SubSeq(seq, 1, i - 1) \o SubSeq(seq, i + 1, Len(seq))

\* the timer that runs next: the first scheduled of those that are due
IsNextDue(i) ==
  /\ timers[i].remaining = 0
  /\ \A j \in 1..(i - 1) : timers[j].remaining # 0

\* the time until the next timer is due
NextDue ==
  CHOOSE d \in {timers[i].remaining : i \in 1..Len(timers)} :
    \A i \in 1..Len(timers) : d <= timers[i].remaining

(***************************************************************************)
(* The form coordinator (src/unnamed/part_001, class FormManager).  A      *)
(* field element is [name, type, required]; the value of a field is one of *)
(* Values.  A validator gives back true (Passed) or its message.           *)
(***************************************************************************)
FormIds == {"myForm"}
UnknownForm == "missing"

\* the form of the README, and the same form with an optional user name
ReadmeForm ==
  << [name |-> "username", type |-> "text", required |-> TRUE],
     [name |-> "email", type |-> "email", required |-> TRUE] >>
OptionalNameForm ==
  << [name |-> "username", type |-> "text", required |-> FALSE],
     [name |-> "email", type |-> "email", required |-> TRUE] >>
DomForms == {ReadmeForm, OptionalNameForm}

\* what a user may type into a field
Values == {"", " ", "ab", "a@b.c"}

Passed == "#true"
RequiredMessage == "This field is required"
EmailMessage == "Please enter a valid email address"
FixErrorsMessage == "Please fix the errors in the form"
SuccessMessage == "Form submitted successfully!"
GenericMessage == "An error occurred while submitting the form"

\* value.trim() on Values
Trim(v) == IF v = " " THEN "" ELSE v

\* field.element.value after the user typed v: an input of type "email"
\* strips the white space around its value, the other types keep it
ElementValue(type, v) == IF type = "email" THEN Trim(v) ELSE v

\* /^[^\s@]+@[^\s@]+\.[^\s@]+$/.test(value) on Values
EmailRegexTest(v) == v = "a@b.c"

\* required: (value && value.trim() !== "") || "This field is required"
Required(value) ==
  IF Truthy(value) /\ Trim(value) # "" THEN Passed ELSE RequiredMessage

\* email: if (!value) return true; emailRegex.test(value) || message
Email(value) ==
  IF ~Truthy(value) THEN Passed
  ELSE IF EmailRegexTest(value) THEN Passed ELSE EmailMessage

\* validator(value, field.element)
ValidatorResult(validator, value) ==
  CASE validator = "required" -> Required(value)
    [] validator = "email" -> Email(value)

\* getFieldValidators(field); no field of the model has a pattern attribute
GetFieldValidators(el) ==
  (IF el.required THEN <<"required">> ELSE <<>>)
    \o (IF el.type = "email" THEN <<"email">> ELSE <<>>)

\* addField from discoverFields: a field starts valid, never validated; ran
\* (history only) holds the validators the last validateField call invoked
\* and is emptied when the validators or the value change without one
AddField(el) ==
  [name |-> el.name, type |-> el.type, value |-> "",
   validators |-> GetFieldValidators(el),
   isValid |-> TRUE, errors |-> <<>>, shown |-> Null, cls |-> "",
   ran |-> <<>>]

\* discoverFields(formId)
DiscoverFields(dom) == [k \in 1..Len(dom) |-> AddField(dom[k])]

\* the error element shows the last message (a mutation of UpdateFieldUI)
UpdateFieldUIShowsLast(field, isValid, errors) ==
  [field EXCEPT !.cls = IF isValid THEN "valid" ELSE "error",
                !.shown = IF Len(errors) > 0 THEN errors[Len(errors)]
                          ELSE Null]

\* updateFieldUI(element, isValid, errors): the class and the error element
UpdateFieldUI(field, isValid, errors) ==
  [field EXCEPT !.cls = IF isValid THEN "valid" ELSE "error",
                !.shown = IF Len(errors) > 0 THEN errors[1] ELSE Null]

\* field.validators.forEach(...): what each validator gave for the value
Results(field) ==
  [k \in 1..Len(field.validators) |->
     ValidatorResult(field.validators[k], field.value)]

\* if (result !== true) errors.push(result)
Errors(field) == SelectSeq(Results(field), LAMBDA r : r # Passed)

\* validateField(formId, fieldName) on a field of a registered form
ValidateField(field) ==
  LET errors == Errors(field)
  IN UpdateFieldUI([field EXCEPT !.isValid = (errors = <<>>),
                                 !.errors = errors,
                                 !.ran = field.validators],
                   errors = <<>>, errors)

\* the fields up to the first that fails (a mutation of Visited)
VisitedUntilFailure(fields) ==
  {k \in 1..Len(fields) : \A j \in 1..(k - 1) : Errors(fields[j]) = <<>>}

\* config.fields.forEach(...) in validateForm: the fields it validates
Visited(fields) == 1..Len(fields)

\* every form is found valid (a mutation of ValidateForm)
ValidateFormAlwaysValid(fields) ==
  [fields |-> [k \in 1..Len(fields) |-> ValidateField(fields[k])],
   visited |-> 1..Len(fields),
   isValid |-> TRUE]

\* validateForm(formId) on a registered form
ValidateForm(fields) ==
  LET visited == Visited(fields)
  IN [fields |-> [k \in 1..Len(fields) |->
                    IF k \in visited THEN ValidateField(fields[k])
                    ELSE fields[k]],
      visited |-> visited,
      isValid |-> \A k \in visited : ValidateField(fields[k]).isValid]

\* getFormData(formId)
GetFormData(fields) ==
  [name \in {fields[k].name : k \in 1..Len(fields)} |->
     fields[CHOOSE k \in 1..Len(fields) : fields[k].name = name].value]

\* resetForm(formId) on the form: element.reset() and the validation states
ResetFields(fields) ==
  [k \in 1..Len(fields) |->
     UpdateFieldUI([fields[k] EXCEPT !.value = "", !.isValid = TRUE,
                                     !.errors = <<>>, !.ran = <<>>],
                   TRUE, <<>>)]

\* the submit button: submitBtn.disabled, textContent, dataset.originalText
Button == [disabled |-> FALSE, text |-> "Submit", originalText |-> Undefined]

\* setFormLoading(formId, loading) on the submit button
SetButtonLoading(b, loading) ==
  LET text == IF loading THEN "Submitting..."
              ELSE IF Truthy(b.originalText) THEN b.originalText
              ELSE "Submit"
  IN [disabled |-> loading, text |-> text,
      originalText |-> IF Truthy(b.originalText) THEN b.originalText
                       ELSE text]

\* what a submit handler may throw: an Error with a message, an Error with
\* an empty message, a string, null
ThrownValues ==
  { [kind |-> "Error", message |-> "boom"],
    [kind |-> "Error", message |-> ""],
    [kind |-> "string", message |-> Undefined],
    [kind |-> "null", message |-> Undefined] }

NothingThrown == [kind |-> "none", message |-> Undefined]
Resolved == [kind |-> "resolved", thrown |-> NothingThrown]
Rejected(t) == [kind |-> "rejected", thrown |-> t]
Outcomes == {Resolved} \cup {Rejected(t) : t \in ThrownValues}

\* reading a property of null or undefined throws a TypeError
HasProperties(t) == t.kind \notin {"null", "undefined"}

\* error.message || "An error occurred while submitting the form"
MessageOrFallback(t) ==
  IF Truthy(t.message) THEN t.message ELSE GenericMessage

(***************************************************************************)
(* handleSubmit is an async function: it runs from its call to the await   *)
(* of the submit handler, and later from there to its end.  A call in      *)
(* progress is a record of `submissions`; while one is running (pc         *)
(* "validate" or "finally") nothing else runs.  called, raised, reset,     *)
(* settled, thrown and rejects are history: how often the submit handler   *)
(* was invoked, the notifications the call raised, whether it reset the    *)
(* form, how the handler's promise settled and with what, and whether the  *)
(* promise of handleSubmit rejects.                                        *)
(***************************************************************************)
NewSubmission(n, formId) ==
  [n |-> n, form |-> formId, pc |-> "validate", path |-> "none",
   data |-> EmptyObject, called |-> 0, raised |-> <<>>, reset |-> FALSE,
   settled |-> "pending", thrown |-> NothingThrown, rejects |-> FALSE]

Running ==
  \E i \in 1..Len(submissions) : submissions[i].pc \in {"validate", "finally"}
Quiet == ~Running

Raise(s, type, message) ==
  [s EXCEPT !.raised = Append(@, [type |-> type, message |-> message])]

\* the try block is left without its finally block (a mutation of ExitTry)
ExitTryNoFinally(s, path) == [s EXCEPT !.pc = "returned", !.path = path]

\* leaving the try block, by return, by its end or through the catch block:
\* the finally block runs next
ExitTry(s, path) == [s EXCEPT !.pc = "finally", !.path = path]

\* handleSubmit from the end of `await config.onSubmit(formData, formId)`
\* to the finally block; eff is the document and the timers at that point
Resume(s0, form, settled, eff, reading) ==
  LET s == [s0 EXCEPT !.settled = settled.kind, !.thrown = settled.thrown]
  IN
  IF settled.kind = "resolved"
  THEN LET shown == ShowSuccess(eff, reading, SuccessMessage)
           reset == form.resetOnSubmit
       IN [sub |-> ExitTry([Raise(s, "success", SuccessMessage)
                              EXCEPT !.reset = reset], "success"),
           fields |-> IF reset THEN ResetFields(form.fields) ELSE form.fields,
           doc |-> IF reset THEN ClearFormData(shown.doc, s.form)
                   ELSE shown.doc,
           timers |-> shown.timers,
           clock |-> reading]
  ELSE IF ~HasProperties(settled.thrown)
  THEN [sub |-> ExitTry([s EXCEPT !.rejects = TRUE], "failure"),
        fields |-> form.fields, doc |-> eff.doc, timers |-> eff.timers,
        clock |-> clock]
  ELSE LET message == MessageOrFallback(settled.thrown)
           shown == ShowError(eff, reading, message)
       IN [sub |-> ExitTry(Raise(s, "error", message), "failure"),
           fields |-> form.fields, doc |-> shown.doc,
           timers |-> shown.timers, clock |-> reading]

\* the step of submission i that Resume describes
Resumed(i, r) ==
  /\ state' = r.doc
  /\ timers' = r.timers
  /\ clock' = r.clock
  /\ forms' = [forms EXCEPT ![submissions[i].form].fields = r.fields]
  /\ submissions' = [submissions EXCEPT ![i] = r.sub]

\* the number of submit listeners on the element of a form
Bound(id) ==
  IF id \in DOMAIN listeners.bound THEN listeners.bound[id] ELSE 0

\* bindFormEvents(formId): form.addEventListener("submit", ...) adds one
\* more listener, a new closure at every call
BindFormEvents(l, id) ==
  [l EXCEPT !.bound = Merge(@, [k \in {id} |-> Bound(id) + 1])]

\* the configuration registerForm stores: fields is a new Map that
\* discoverFields fills from the elements of the form, which keep what the
\* page shows (their values, classes and error texts, the submit button)
FormConfig(id, dom, onSubmit, resetOnSubmit) ==
  [fields |-> IF id \in DOMAIN forms
              THEN [k \in 1..Len(dom) |->
                      [AddField(dom[k]) EXCEPT
                         !.value = forms[id].fields[k].value,
                         !.shown = forms[id].fields[k].shown,
                         !.cls = forms[id].fields[k].cls]]
              ELSE DiscoverFields(dom),
   onSubmit |-> onSubmit, resetOnSubmit |-> resetOnSubmit,
   button |-> IF id \in DOMAIN forms THEN forms[id].button ELSE Button]

\* registerForm(form, options), for a form that is registered already too:
\* this.forms.set, bindFormEvents, discoverFields
RegisterForm(id, dom, onSubmit, resetOnSubmit) ==
  /\ UNCHANGED <<uiVars, siteVars>>
  /\ Idle
  /\ Quiet
  /\ listeners.left = 0
  /\ forms' = Merge(forms, [k \in {id} |->
                              FormConfig(id, dom, onSubmit, resetOnSubmit)])
  /\ listeners' = BindFormEvents(listeners, id)
  /\ lastCall' = NoCall
  /\ UNCHANGED <<state, storeVars, timeVars, submissions, submitted, finished>>

\* addValidator(formId, fieldName, validator) for the k-th field
AddValidator(id, k, validator) ==
  /\ UNCHANGED <<uiVars, listeners, siteVars>>
  /\ Idle
  /\ Quiet
  /\ id \in DOMAIN forms
  /\ k \in 1..Len(forms[id].fields)
  /\ Len(forms[id].fields[k].validators) < MaxValidators
  /\ forms' = [forms EXCEPT ![id].fields[k].validators = Append(@, validator),
                            ![id].fields[k].ran = <<>>]
  /\ lastCall' = NoCall
  /\ UNCHANGED <<state, storeVars, timeVars, submissions, submitted, finished>>

\* the user types v into the k-th field: the "input" listener validates it
Input(id, k, v) ==
  /\ UNCHANGED <<uiVars, listeners, siteVars>>
  /\ Idle
  /\ Quiet
  /\ id \in DOMAIN forms
  /\ k \in 1..Len(forms[id].fields)
  /\ forms' = [forms EXCEPT ![id].fields[k] =
                 ValidateField([@ EXCEPT !.value =
                                  ElementValue(forms[id].fields[k].type, v)])]
  /\ lastCall' = NoCall
  /\ UNCHANGED <<state, storeVars, timeVars, submissions, submitted, finished>>

\* a client calls validateForm(formId)
ValidateFormCall(id) ==
  /\ UNCHANGED <<uiVars, listeners, siteVars>>
  /\ Idle
  /\ Quiet
  /\ IF id \notin DOMAIN forms
     THEN /\ lastCall' = [op |-> "validateForm", form |-> id,
                          result |-> FALSE, visited |-> {}]
          /\ UNCHANGED forms
     ELSE LET v == ValidateForm(forms[id].fields)
          IN /\ forms' = [forms EXCEPT ![id].fields = v.fields]
             /\ lastCall' = [op |-> "validateForm", form |-> id,
                             result |-> v.isValid, visited |-> v.visited]
  /\ UNCHANGED <<state, storeVars, timeVars, submissions, submitted, finished>>

\* handleSubmit(formId) up to the try block
HandleSubmitCall(id) ==
  /\ UNCHANGED <<uiVars, siteVars>>
  /\ Idle
  /\ Quiet
  /\ IF id \notin DOMAIN forms
     THEN /\ lastCall' = [op |-> "handleSubmit", form |-> id,
                          result |-> FALSE, visited |-> {}]
          /\ UNCHANGED <<state, forms, submissions, submitted>>
     ELSE /\ submitted < MaxSubmits
          /\ state' = SetLoading(state, TRUE)
          /\ forms' = [forms EXCEPT ![id].button = SetButtonLoading(@, TRUE)]
          /\ submissions' = Append(submissions,
                                   NewSubmission(submitted + 1, id))
          /\ submitted' = submitted + 1
          /\ lastCall' = NoCall
  /\ UNCHANGED <<storeVars, timeVars, finished>>

\* a client calls handleSubmit(formId)
HandleSubmit(id) == HandleSubmitCall(id) /\ UNCHANGED listeners

\* the user submits a registered form: the submit event is dispatched to
\* the listeners of the form element
SubmitEvent(id) ==
  /\ Idle
  /\ Quiet
  /\ listeners.left = 0
  /\ id \in DOMAIN forms
  /\ submitted + Bound(id) <= MaxSubmits
  /\ listeners' = [listeners EXCEPT !.form = id, !.left = Bound(id),
                                    !.events = @ + 1, !.started = {}]
  /\ UNCHANGED <<state, storeVars, timeVars, forms, submissions, submitted,
                 finished, lastCall, uiVars, siteVars>>

\* the next listener of the event: e.preventDefault() and
\* this.handleSubmit(formId), which runs to its first await
SubmitListener ==
  /\ listeners.left > 0
  /\ HandleSubmitCall(listeners.form)
  /\ listeners' = [listeners EXCEPT !.left = @ - 1,
                                    !.started = @ \cup {submitted + 1}]

\* handleSubmit from validateForm to the await, or to the return of the
\* invalid case
SubmitValidate(reading) ==
  /\ UNCHANGED <<uiVars, listeners, siteVars>>
  /\ Idle
  /\ \E i \in 1..Len(submissions) :
       /\ submissions[i].pc = "validate"
       /\ LET s == submissions[i]
              form == forms[s.form]
              v == ValidateForm(form.fields)
              shown == ShowError([doc |-> state, timers |-> timers], reading,
                                 FixErrorsMessage)
          IN /\ forms' = [forms EXCEPT ![s.form].fields = v.fields]
             /\ IF ~v.isValid
                THEN /\ state' = shown.doc
                     /\ timers' = shown.timers
                     /\ clock' = reading
                     /\ submissions' =
                          [submissions EXCEPT ![i] =
                             ExitTry(Raise(s, "error", FixErrorsMessage),
                                     "invalid")]
                ELSE /\ submissions' =
                          [submissions EXCEPT ![i] =
                             [s EXCEPT !.pc = "awaiting",
                                       !.data = GetFormData(v.fields),
                                       !.called = @ + 1]]
                     /\ timers' = IF form.onSubmit = "default"
                                  THEN Append(timers, SubmitTimer(s.n))
                                  ELSE timers
                     /\ UNCHANGED <<state, clock>>
  /\ UNCHANGED <<storeVars, added, submitted, finished, lastCall>>

\* the promise of a custom submit handler settles and handleSubmit resumes
HandlerSettles(i, settled, reading) ==
  /\ UNCHANGED <<uiVars, listeners, siteVars>>
  /\ Idle
  /\ Quiet
  /\ i \in 1..Len(submissions)
  /\ submissions[i].pc = "awaiting"
  /\ forms[submissions[i].form].onSubmit = "custom"
  /\ Resumed(i, Resume(submissions[i], forms[submissions[i].form], settled,
                       [doc |-> state, timers |-> timers], reading))
  /\ UNCHANGED <<storeVars, added, submitted, finished, lastCall>>

\* the finally block of handleSubmit: setFormLoading(formId, false)
Finally ==
  /\ UNCHANGED <<uiVars, listeners, siteVars>>
  /\ Idle
  /\ \E i \in 1..Len(submissions) :
       /\ submissions[i].pc = "finally"
       /\ state' = SetLoading(state, FALSE)
       /\ forms' = [forms EXCEPT ![submissions[i].form].button =
                      SetButtonLoading(@, FALSE)]
       /\ submissions' = RemoveAt(submissions, i)
       /\ finished' = finished \cup {submissions[i].n}
  /\ UNCHANGED <<storeVars, timeVars, submitted, lastCall>>

\* a client calls addNotification(message, type, duration)
AddNotificationCall(message, type, duration, reading) ==
  /\ UNCHANGED <<uiVars, listeners, siteVars>>
  /\ Idle
  /\ Quiet
  /\ Len(added) < MaxNotifications
  /\ state' = AddNotification(state,
                              Notification(reading, message, type, duration))
  /\ timers' = Append(timers, RemovalTimer(reading, duration, Len(added) + 1))
  /\ clock' = reading
  /\ added' = Append(added, [id |-> reading, message |-> message,
                             type |-> type, duration |-> duration, age |-> 0])
  /\ UNCHANGED <<storeVars, formVars, siteVars>>

\* the timer that is due runs: the removal of a notification, or the default
\* submit handler from its timeout to its return and handleSubmit after it
TimerFire(reading) ==
  /\ UNCHANGED <<uiVars, listeners, siteVars>>
  /\ Idle
  /\ Quiet
  /\ \E i \in 1..Len(timers) :
       /\ IsNextDue(i)
       /\ LET t == timers[i]
              rest == RemoveAt(timers, i)
          IN IF t.kind = "removeNotification"
             THEN /\ state' = RemoveNotification(state, t.id)
                  /\ timers' = rest
                  /\ UNCHANGED <<clock, forms, submissions>>
             ELSE \E j \in 1..Len(submissions) :
                    /\ submissions[j].n = t.n
                    /\ LET s == submissions[j]
                       IN Resumed(j, Resume(s, forms[s.form], Resolved,
                            [doc |-> UpdateFormData(state, s.form, s.data),
                             timers |-> rest], reading))
  /\ UNCHANGED <<storeVars, added, submitted, finished, lastCall>>

\* d units of time pass; no timer is due and none becomes overdue
Tick(d) ==
  /\ UNCHANGED <<uiVars, listeners, siteVars>>
  /\ Idle
  /\ Quiet
  /\ timers # <<>>
  /\ d > 0
  /\ \A i \in 1..Len(timers) : timers[i].remaining >= d
  /\ timers' = [i \in 1..Len(timers) |->
                  [timers[i] EXCEPT !.remaining = @ - d]]
  /\ added' = [k \in 1..Len(added) |-> [added[k] EXCEPT !.age = @ + d]]
  /\ UNCHANGED <<state, clock, storeVars, formVars, siteVars>>

(***************************************************************************)
(* The notification region (notification.js, class NotificationManager).   *)
(* show() schedules two timers and nothing ever cancels one; a timer of    *)
(* the region is [kind, remaining, id, n] with kind "show" or "hide", n    *)
(* the number of the show call that scheduled it.                          *)
(***************************************************************************)
MaxShows == 3
\* the delay of the timer that adds the "show" class
MinimalDelay == 10
\* messages, severities and durations given to show
Messages == {"m1", "m2"}
Severities == {"info", "error"}
ShowDurations == {5, 100}

\* setTimeout(..., delay) of the n-th show call
RegionTimer(kind, delay, n) ==
  [kind |-> kind, remaining |-> delay, id |-> 0, n |-> n]

\* hide()
Hide(r) == [r EXCEPT !.classes = @ \ {"show"}]

\* clear()
Clear(r) ==
  [r EXCEPT !.classes = @ \ {"show", "success", "error", "warning", "info"},
            !.text = ""]

\* the severity class is added to the classes of the region (a mutation of
\* Show)
ShowAddsClass(eff, message, type, duration) ==
  LET n == eff.notifier.calls + 1
  IN [notifier |-> [eff.notifier EXCEPT
                      !.text = message, !.classes = @ \cup {type},
                      !.calls = n, !.touched = FALSE,
                      !.before = [text |-> eff.notifier.text,
                                  classes |-> eff.notifier.classes],
                      !.last = [message |-> message, type |-> type,
                                duration |-> duration]],
      timers |-> eff.timers \o <<RegionTimer("show", MinimalDelay, n),
                                 RegionTimer("hide", duration, n)>>]

\* show(message, type, duration) on a region and a timer list
Show(eff, message, type, duration) ==
  LET n == eff.notifier.calls + 1
  IN [notifier |-> [Clear(eff.notifier) EXCEPT
                      !.text = message, !.classes = {"notification", type},
                      !.calls = n, !.touched = FALSE,
                      !.before = [text |-> eff.notifier.text,
                                  classes |-> eff.notifier.classes],
                      !.last = [message |-> message, type |-> type,
                                duration |-> duration]],
      timers |-> eff.timers \o <<RegionTimer("show", MinimalDelay, n),
                                 RegionTimer("hide", duration, n)>>]

\* a client calls show(message, type, duration)
ShowCall(message, type, duration) ==
  /\ notifier.calls < MaxShows
  /\ LET eff == Show([notifier |-> notifier, timers |-> timers],
                     message, type, duration)
     IN /\ notifier' = eff.notifier
        /\ timers' = eff.timers
  /\ UNCHANGED <<state, storeVars, clock, added, formVars, siteVars, nav, spa>>

\* a client calls hide()
HideCall ==
  /\ notifier.calls > 0
  /\ notifier' = [Hide(notifier) EXCEPT !.touched = TRUE]
  /\ UNCHANGED <<state, storeVars, timeVars, formVars, siteVars, nav, spa>>

\* destroy(): the region is cleared and the active set emptied; the timers
\* stay (the store of this model has no subscriber list to leave)
Destroy ==
  /\ notifier.calls > 0
  /\ notifier' = [Clear(notifier) EXCEPT !.active = {}, !.touched = TRUE]
  /\ UNCHANGED <<state, storeVars, timeVars, formVars, siteVars, nav, spa>>

\* a timer of the region that is due runs
RegionTimerFire ==
  /\ \E i \in 1..Len(timers) :
       /\ IsNextDue(i)
       /\ timers[i].kind \in {"show", "hide"}
       /\ notifier' = IF timers[i].kind = "show"
                      THEN [notifier EXCEPT !.classes = @ \cup {"show"}]
                      ELSE Hide(notifier)
       /\ timers' = RemoveAt(timers, i)
  /\ UNCHANGED <<state, storeVars, clock, added, formVars, siteVars, nav, spa>>

\* the number of notifications a driven region displays
MaxDisplays == 2

\* the identifiers of a notification list
Ids(list) == {list[i].id : i \in 1..Len(list)}

\* the active set is not looked at (a mutation of Unseen)
UnseenIgnoresActive(r, prevIds, id) == id \notin prevIds

\* !prevIds.has(notification.id) && !this.activeNotifications.has(...)
Unseen(r, prevIds, id) == id \notin prevIds /\ id \notin r.active

\* notifications.forEach(...) of handleNotifications from its i-th element on
RECURSIVE ShowNew(_, _, _, _)
ShowNew(eff, notifications, prevIds, i) ==
  IF i > Len(notifications) THEN eff
  ELSE LET n == notifications[i]
           e == Show(eff, n.message, n.type, n.duration)
       IN IF Unseen(eff.notifier, prevIds, n.id)
          THEN ShowNew([e EXCEPT !.notifier.active = @ \cup {n.id},
                                 !.notifier.shown = Append(@, n.id)],
                       notifications, prevIds, i + 1)
          ELSE ShowNew(eff, notifications, prevIds, i + 1)

\* handleNotifications(notifications, prevNotifications) on a region and a
\* timer list; an undefined previous list is given as the empty one
HandleNotifications(eff, notifications, prevNotifications) ==
  LET prevIds == Ids(prevNotifications)
      e == ShowNew(eff, notifications, prevIds, 1)
  IN [e EXCEPT !.notifier.active = @ \ (prevIds \ Ids(notifications))]

\* the lists a client passes to setState({notifications})
NotificationLists ==
  LET ns == {Notification(1, "m1", "info", MinimalDelay),
             Notification(2, "m2", "error", MinimalDelay)}
  IN {<<>>} \cup {<<n>> : n \in ns} \cup {<<n, m>> : n \in ns, m \in ns}

\* the store, whose only subscriber is the one the NotificationManager
\* registered, replaces its document: setState's merge and fan-out, or
\* reset's (from = "reset", and prevState.notifications is undefined)
Driven(doc, from, rest) ==
  /\ state' = doc
  /\ LET prev == IF from = "reset" THEN <<>> ELSE state["notifications"]
         eff == HandleNotifications([notifier |-> notifier, timers |-> rest],
                                    doc["notifications"], prev)
     IN /\ notifier' = eff.notifier
        /\ timers' = IF from = "addNotification"
                     THEN Append(eff.timers,
                                 RemovalTimer(clock', doc["notifications"][
                                   Len(doc["notifications"])].duration, 0))
                     ELSE eff.timers
  /\ UNCHANGED <<storeVars, formVars, siteVars, nav, spa>>

\* a client calls addNotification(message, type, duration)
DrivenAdd(message, type, duration, reading) ==
  /\ Len(added) < MaxDisplays
  /\ clock' = reading
  /\ added' = Append(added, [id |-> reading, message |-> message,
                             type |-> type, duration |-> duration, age |-> 0])
  /\ Driven(AddNotification(state,
                            Notification(reading, message, type, duration)),
            "addNotification", timers)

\* a client calls setState({notifications: list})
DrivenSet(list) ==
  /\ notifier.calls < MaxDisplays
  /\ UNCHANGED <<clock, added>>
  /\ Driven(Merge(state, [notifications |-> list]), "setState", timers)

\* a client calls reset()
DrivenReset ==
  /\ UNCHANGED <<clock, added>>
  /\ Driven(InitialState, "reset", timers)

\* the removal timer that is due runs
DrivenRemoval ==
  /\ UNCHANGED <<clock, added>>
  /\ \E i \in 1..Len(timers) :
       /\ IsNextDue(i)
       /\ timers[i].kind = "removeNotification"
       /\ Driven(RemoveNotification(state, timers[i].id), "setState",
                 RemoveAt(timers, i))

(***************************************************************************)
(* The navigation (notification.js, class Navigation) on a page whose      *)
(* store has the Navigation as its only subscriber.  The sections lie one  *)
(* below the other; scrolling smoothly from one to another passes those in *)
(* between, and every scroll raises a scroll event whose frame runs later. *)
(***************************************************************************)
MaxEntries == 3
\* the sections of the page, from the top
Sections == <<"home", "about", "contact">>
\* the place of a section in the page; the top if there is no such section
Place(section) ==
  IF \E i \in 1..Len(Sections) : Sections[i] = section
  THEN CHOOSE i \in 1..Len(Sections) : Sections[i] = section
  ELSE 1

\* obj[key], which is undefined when the object has no such key
ReadKey(obj, key) == IF key \in DOMAIN obj THEN obj[key] ELSE Undefined

\* showSection(sectionId)
ShowSection(n, sectionId) ==
  [n EXCEPT !.active = {Sections[i] : i \in {j \in 1..Len(Sections) :
                                               Sections[j] = sectionId}}]

\* the section is shown but this.currentSection keeps its value (a mutation
\* of HandleSectionChange)
HandleSectionChangeShowsOnly(n, section) ==
  IF section # n.currentSection THEN ShowSection(n, section) ELSE n

\* handleSectionChange(section)
HandleSectionChange(n, section) ==
  IF section # n.currentSection
  THEN [ShowSection(n, section) EXCEPT !.currentSection = section]
  ELSE n

\* the callback subscribeToState registered, called with (state, prevState)
SectionSubscriber(n, new, prev) ==
  IF ReadKey(new, "currentSection") # ReadKey(prev, "currentSection")
  THEN HandleSectionChange(n, ReadKey(new, "currentSection"))
  ELSE n

\* history.pushState({ section }, "", url)
PushState(n, section) ==
  [n EXCEPT !.entries = Append(SubSeq(n.entries, 1, n.index), section),
            !.index = @ + 1]

\* a new entry is pushed (a mutation of ReplaceState)
ReplaceStatePushes(n, section) == PushState(n, section)

\* history.replaceState({ section }, "", url)
ReplaceState(n, section) == [n EXCEPT !.entries[n.index] = section]

\* navigateToSection(section, updateHistory) with window.appState set:
\* navigate() and its fan-out, pushState, scrollToSection
NavigateToSection(n, section, updateHistory) ==
  LET doc == Merge(state, [currentSection |-> section])
      shown == SectionSubscriber(n, doc, state)
      pushed == IF updateHistory THEN PushState(shown, section) ELSE shown
  IN [doc |-> doc, nav |-> [pushed EXCEPT !.target = Place(section)]]

\* the click on the link of a section
Navigate(section) ==
  /\ Len(nav.entries) < MaxEntries
  /\ LET r == NavigateToSection(nav, section, TRUE)
     IN /\ state' = r.doc
        /\ nav' = [r.nav EXCEPT !.explicit = section, !.manual = FALSE,
                                !.event = "navigate"]
  /\ UNCHANGED <<storeVars, timeVars, formVars, siteVars, notifier, spa>>

\* the user goes back or forward to entry i: the popstate listener
PopState(i) ==
  /\ i \in 1..Len(nav.entries)
  /\ i # nav.index
  /\ LET section == IF nav.entries[i] = Null THEN "home" ELSE nav.entries[i]
         r == NavigateToSection([nav EXCEPT !.index = i], section, FALSE)
     IN /\ state' = r.doc
        /\ nav' = [r.nav EXCEPT !.explicit = section, !.manual = FALSE,
                                !.event = "popstate"]
  /\ UNCHANGED <<storeVars, timeVars, formVars, siteVars, notifier, spa>>

\* the page scrolls to place p, moved there by the user or, one section at
\* a time, by a smooth scroll: onScroll
Scroll(p, byUser) ==
  /\ p # nav.pos
  /\ IF byUser THEN TRUE
     ELSE \/ nav.pos < nav.target /\ p = nav.pos + 1
          \/ nav.pos > nav.target /\ p = nav.pos - 1
  /\ nav' = [nav EXCEPT !.pos = p,
                        !.target = IF byUser THEN p ELSE @,
                        !.manual = @ \/ byUser,
                        !.ticking = TRUE, !.event = "scroll"]
  /\ UNCHANGED <<state, storeVars, timeVars, formVars, siteVars, notifier, spa>>

\* the animation frame a scroll event asked for: updateActiveSection
Frame ==
  /\ nav.ticking
  /\ LET activeSection == Sections[nav.pos]
         n == [nav EXCEPT !.ticking = FALSE, !.event = "frame"]
         doc == Merge(state, [currentSection |-> activeSection])
         moved == [n EXCEPT !.currentSection = activeSection]
     IN IF activeSection # nav.currentSection
        THEN /\ state' = doc
             /\ nav' = ReplaceState(SectionSubscriber(moved, doc, state),
                                    activeSection)
        ELSE /\ nav' = n
             /\ UNCHANGED state
  /\ UNCHANGED <<storeVars, timeVars, formVars, siteVars, notifier, spa>>

\* the partial setState merges once the registered middlewares have run;
\* the middlewares of a page are those state.js registers in development
RECURSIVE Processed(_, _, _)
Processed(mws, prevState, updates) ==
  IF mws = <<>> THEN updates
  ELSE Processed(Tail(mws), prevState,
                 NextUpdates(updates,
                             MiddlewareResult(Head(mws), prevState, updates)))

\* what a client may pass as a section: a section of the page, an
\* identifier no section has, and a value that is not a string
SectionValues == {"contact", "nowhere", NotAString}
\* the partials a client of the page passes to setState
PagePartials ==
  {[currentSection |-> v] : v \in SectionValues}
    \cup {[loading |-> FALSE]}

\* setState(updates) called on the store of the page, whose subscriber is
\* the Navigation
PageSetState(updates, event) ==
  /\ LET doc == Merge(state, Processed(middlewares, ShallowCopy(state), updates))
     IN /\ state' = doc
        /\ nav' = [SectionSubscriber(nav, doc, ShallowCopy(state))
                     EXCEPT !.event = event]
  /\ UNCHANGED <<storeVars, timeVars, formVars, siteVars, notifier, spa>>

\* appState.navigate(section) called by a client of the page
PageNavigate(section) ==
  PageSetState([currentSection |-> section], "store navigate")

\* appState.reset() called by a client of the page: the subscriber gets {}
\* as the previous document
PageReset ==
  /\ state' = InitialState
  /\ nav' = [SectionSubscriber(nav, InitialState, EmptyObject)
               EXCEPT !.event = "store reset"]
  /\ lastWrite' = EmptyObject
  /\ UNCHANGED <<subscribers, middlewares, stack, outcome, issued, unsubCalled,
                 dead, held, storage, timeVars, formVars, siteVars, notifier, spa>>


(***************************************************************************)
(* The API demo (src/SPA/scripts/main.js, class SPAApp).  A message is the *)
(* tuple of the parts of its template; a title is the capitalised data     *)
(* type and the number of items.  A request settles with the items of its  *)
(* endpoint ("ok"), with none ("empty"), with a status that is not OK      *)
(* ("http") or with a rejected fetch ("network").                          *)
(***************************************************************************)
MaxRequests == 2
MaxClears == 1
\* the delay of the timer of clearResults
FadeDelay == 300
DataTypes == {"posts", "comments"}
FetchOutcomes == {"ok", "empty", "http", "network"}
SelectMessage == <<"Please select a data type">>
FailedToFetch(dataType) ==
  <<"Failed to fetch", dataType,
    "Please check your internet connection and try again.">>
NoneFound(dataType) == <<"No", dataType, "found">>

\* dataType.charAt(0).toUpperCase() + dataType.slice(1)
Capitalize(dataType) ==
  CASE dataType = "posts" -> "Posts"
    [] dataType = "comments" -> "Comments"
    [] OTHER -> dataType

\* the loading state and the button are left as they are (a mutation of
\* HideAllStates)
HideAllStatesKeepsLoading(a) ==
  [a EXCEPT !.resultsShown = FALSE, !.errorShown = FALSE]

\* hideAllStates(), with the hideLoading() it calls
HideAllStates(a) ==
  [a EXCEPT !.loading = FALSE, !.disabled = FALSE, !.resultsShown = FALSE,
            !.errorShown = FALSE]

\* showLoading()
ShowLoading(a) == [HideAllStates(a) EXCEPT !.disabled = TRUE, !.loading = TRUE]

\* showError(message) of the SPAApp
AppShowError(a, message) ==
  [HideAllStates(a) EXCEPT !.errorMessage = message, !.errorShown = TRUE]

\* displayResults(data, dataType)
DisplayResults(a, data, dataType) ==
  IF data.items = 0
  THEN AppShowError(HideAllStates(a), NoneFound(dataType))
  ELSE [HideAllStates(a) EXCEPT
          !.title = [type |-> Capitalize(dataType), items |-> data.items],
          !.layout = dataType, !.resultsShown = TRUE]

\* the user checks the radio button of a data type: the change listener
RadioChange(dataType) ==
  /\ dataType # spa.checked
  /\ spa' = [spa EXCEPT !.checked = dataType, !.currentDataType = dataType,
                        !.event = "change"]
  /\ UNCHANGED <<state, storeVars, timeVars, formVars, siteVars, notifier, nav>>

\* handleFormSubmission() up to its await, called by the submit listener
\* (the button must be enabled) or by the click on retry (the error state
\* must be displayed)
HandleFormSubmission(via) ==
  /\ spa.sent < MaxRequests
  /\ IF via = "submit" THEN ~spa.disabled ELSE spa.errorShown
  /\ spa' =
       IF spa.checked = Null
       THEN [AppShowError(spa, SelectMessage) EXCEPT !.event = via]
       ELSE [ShowLoading(spa) EXCEPT
               !.currentDataType = spa.checked,
               !.requests = Append(@, [n |-> spa.sent + 1,
                                       type |-> spa.checked]),
               !.sent = @ + 1, !.event = via]
  /\ UNCHANGED <<state, storeVars, timeVars, formVars, siteVars, notifier, nav>>

\* the i-th request in flight settles and handleFormSubmission runs on from
\* its await: fetchData returns or throws
Settle(i, how) ==
  /\ i \in 1..Len(spa.requests)
  /\ LET r == spa.requests[i]
         data == [type |-> r.type,
                  items |-> IF how = "ok" THEN 2 ELSE 0]
         a == [spa EXCEPT !.requests = RemoveAt(@, i),
                          !.settled = [n |-> r.n, type |-> r.type,
                                       outcome |-> how],
                          !.event = "settle"]
     IN spa' =
          IF how \in {"ok", "empty"}
          THEN DisplayResults([a EXCEPT !.currentData = data], data,
                              a.currentDataType)
          ELSE AppShowError(a, FailedToFetch(a.currentDataType))
  /\ UNCHANGED <<state, storeVars, timeVars, formVars, siteVars, notifier, nav>>

\* the click on "clear": clearResults() up to its timer
ClearResults ==
  /\ Len(timers) < MaxClears
  /\ spa' = [HideAllStates(spa) EXCEPT
               !.currentData = NoData, !.checked = "posts",
               !.currentDataType = "posts", !.event = "clear"]
  /\ timers' = Append(timers, [kind |-> "fade", remaining |-> FadeDelay,
                               id |-> 0, n |-> 0])
  /\ UNCHANGED <<state, storeVars, clock, added, formVars, siteVars, notifier, nav>>

\* the timer of clearResults runs: the results container is hidden
FadeTimerFire ==
  /\ \E i \in 1..Len(timers) :
       /\ IsNextDue(i)
       /\ timers[i].kind = "fade"
       /\ timers' = RemoveAt(timers, i)
  /\ spa' = [spa EXCEPT !.resultsShown = FALSE, !.event = "fade"]
  /\ UNCHANGED <<state, storeVars, clock, added, formVars, siteVars, notifier, nav>>

(***************************************************************************)
(* The operations of the store that build a partial from the document and  *)
(* pass it to setState (state.js 89-163).                                   *)
(***************************************************************************)
\* navigate(section) on a document
StoreNavigate(doc, section) == Merge(doc, [currentSection |-> section])

\* the statistics are replaced by the fields given (a mutation of
\* UpdateStats)
UpdateStatsReplaces(doc, stats) == Merge(doc, [stats |-> stats])

\* updateStats(stats) on a document
UpdateStats(doc, stats) ==
  Merge(doc, [stats |-> Merge(doc["stats"], stats)])

\* what the callers of this model pass to the operations
StatsUpdates == {[projects |-> 5], [components |-> 2, satisfaction |-> 9]}
FormNames == {"login", "contact"}
FormDatas == {[name |-> "x"]}

\* a client calls the operation `by`, which calls setState with the one key
\* it has built from the document; names are the form or the statistics
\* fields the call names (history)
StoreCall(by, doc, key, names) ==
  /\ Idle
  /\ stack' = <<NewFrame(by, [k \in {key} |-> doc[k]], names)>>
  /\ lastWrite' = RecordWrite(lastWrite, [k \in {key} |-> doc[k]])
  /\ UNCHANGED <<state, subscribers, middlewares, outcome, issued, unsubCalled,
                 dead, held, storage, timeVars, formVars, uiVars, siteVars>>

(***************************************************************************)
(* The counter demos (src/unnamed/part_002: MVC, part_000: MVP,            *)
(* part_004: MVVM).  The text of the count element is the sequence of its  *)
(* characters.                                                             *)
(***************************************************************************)
MaxClicks == 3
MaxListeners == 3

\* the number a decimal numeral stands for
RECURSIVE DigitsValue(_)
DigitsValue(chars) ==
  IF chars = <<>> THEN 0
  ELSE 10 * DigitsValue(SubSeq(chars, 1, Len(chars) - 1))
         + (CHOOSE d \in 0..9 : DigitChars[d + 1] = chars[Len(chars)])
\* the number the count element displays
NumberOf(text) ==
  IF Head(text) = "-" THEN 0 - DigitsValue(Tail(text)) ELSE DigitsValue(text)

\* CounterModel.increment(): this.count += 1
Increment(model) == [model EXCEPT !.count = @ + 1]

\* CounterView.render(count) and setCount(count):
\* this.countElement.textContent = String(count)
Render(view, count) == [view EXCEPT !.text = StringOf(count)]

\* a listener called with the count; the listener of the view renders it
CallListener(l, count) == [l EXCEPT !.calls = @ + 1, !.last = count]

\* only the first listener is called (a mutation of Notify)
NotifyFirst(vm) ==
  [vm EXCEPT !.listeners[1] = CallListener(@, vm.count),
             !.text = StringOf(vm.count)]

\* CounterViewModel.notify(): every listener is called with model.count
Notify(vm) ==
  [vm EXCEPT !.listeners = [k \in 1..Len(vm.listeners) |->
                              CallListener(vm.listeners[k], vm.count)],
             !.text = IF \E k \in 1..Len(vm.listeners) :
                            vm.listeners[k].kind = "render"
                      THEN StringOf(vm.count) ELSE @]

\* history: one more change for the listeners subscribed so far
Changed(vm) ==
  [vm EXCEPT !.listeners = [k \in 1..Len(vm.listeners) |->
                              [vm.listeners[k] EXCEPT !.changes = @ + 1]]]

\* a click on the button of the MVC page: CounterController.handleIncrement
MvcClick ==
  /\ counters.mvc.clicks < MaxClicks
  /\ counters' =
       [counters EXCEPT !.mvc =
          LET m == Increment(counters.mvc)
          IN [Render(m, m.count) EXCEPT !.clicks = @ + 1]]
  /\ UNCHANGED <<state, storeVars, timeVars, formVars, uiVars, server, launch>>

\* a click on the button of the MVP page: CounterPresenter.handleIncrement
MvpClick ==
  /\ counters.mvp.clicks < MaxClicks
  /\ counters' =
       [counters EXCEPT !.mvp =
          LET m == Increment(counters.mvp)
          IN [Render(m, m.count) EXCEPT !.clicks = @ + 1]]
  /\ UNCHANGED <<state, storeVars, timeVars, formVars, uiVars, server, launch>>

\* a click on the increment button of the MVVM page:
\* CounterViewModel.increment
MvvmIncrement ==
  /\ counters.mvvm.increments + counters.mvvm.decrements < MaxClicks
  /\ counters' =
       [counters EXCEPT !.mvvm =
          [Notify(Changed(Increment(counters.mvvm)))
             EXCEPT !.increments = @ + 1]]
  /\ UNCHANGED <<state, storeVars, timeVars, formVars, uiVars, server, launch>>

\* a click on the decrement button of the MVVM page:
\* CounterViewModel.decrement
MvvmDecrement ==
  /\ counters.mvvm.increments + counters.mvvm.decrements < MaxClicks
  /\ counters' =
       [counters EXCEPT !.mvvm =
          [Notify(Changed([counters.mvvm EXCEPT !.count = @ - 1]))
             EXCEPT !.decrements = @ + 1]]
  /\ UNCHANGED <<state, storeVars, timeVars, formVars, uiVars, server, launch>>

\* CounterViewModel.subscribe(listener): the listener is pushed and called
MvvmSubscribe(kind) ==
  /\ Len(counters.mvvm.listeners) < MaxListeners
  /\ counters' =
       [counters EXCEPT !.mvvm =
          LET vm == counters.mvvm
          IN [(IF kind = "render" THEN Render(vm, vm.count) ELSE vm)
                EXCEPT !.listeners = Append(@, NewListener(kind, vm.count))]]
  /\ UNCHANGED <<state, storeVars, timeVars, formVars, uiVars, server, launch>>

(***************************************************************************)
(* The static file servers: the DevServer of the Monolithic template       *)
(* ("dev", notification.js 649-911) and the server of the MVC demo ("mvc", *)
(* part_002 46-80).  A path is the sequence of its segments, a request     *)
(* target the path and the query string that follows it.                   *)
(***************************************************************************)
MaxHttp == 2
Servers == {"dev", "mvc"}
Methods == {"GET", "OPTIONS"}
\* this.projectRoot and publicDir
DocumentRoot(srv) == <<"srv", srv>>
\* the paths and the query strings of the request targets
RequestPaths ==
  {<<>>, <<"index.html">>, <<"css">>, <<"css", "app.css">>, <<"missing.js">>,
   <<"locked.html">>, <<"..", "secret.txt">>, <<"css", "..", "index.html">>}
Queries == {"", "?v=1"}

\* the file system: under each document root an index document, a
\* directory with a style sheet and a file the server may not read; next to
\* the document roots a file that belongs to no site
Kind(path) ==
  IF path \in {<<>>, <<"srv">>, <<"srv", "dev">>, <<"srv", "mvc">>,
               <<"srv", "dev", "css">>, <<"srv", "mvc", "css">>}
    THEN "directory"
  ELSE IF path \in {<<"srv", "secret.txt">>,
                    <<"srv", "dev", "index.html">>,
                    <<"srv", "mvc", "index.html">>,
                    <<"srv", "dev", "css", "app.css">>,
                    <<"srv", "mvc", "css", "app.css">>}
    THEN "file"
  ELSE IF path \in {<<"srv", "dev", "locked.html">>,
                    <<"srv", "mvc", "locked.html">>}
    THEN "unreadable"
  ELSE "missing"

\* path.normalize: "." and empty segments are dropped and ".." removes the
\* segment before it, the root directory having no parent
RECURSIVE Normalize(_, _)
Normalize(done, segments) ==
  IF segments = <<>> THEN done
  ELSE LET seg == Head(segments)
       IN IF seg \in {"", "."} THEN Normalize(done, Tail(segments))
          ELSE IF seg = ".."
          THEN Normalize(SubSeq(done, 1, Len(done) - 1), Tail(segments))
          ELSE Normalize(Append(done, seg), Tail(segments))

\* path.join(root, urlPath)
Join(root, segments) == Normalize(root, segments)

\* req.url as the MVC server splits it: the query string is part of the
\* last segment
RawSegments(target) ==
  IF target.query = "" THEN target.path
  ELSE IF target.path = <<>> THEN <<target.query>>
  ELSE [target.path EXCEPT ![Len(target.path)] = @ \o target.query]

\* url.parse(req.url, true).pathname, and "/index.html" for "/"
Pathname(target) ==
  IF target.path = <<>> THEN <<"index.html">> ELSE target.path

\* req.url === "/" ? "/index.html" : req.url
UrlPath(target) ==
  IF target.path = <<>> /\ target.query = "" THEN <<"index.html">>
  ELSE RawSegments(target)

\* fs.access never reports an error (a mutation of Exists)
ExistsAlways(path) == TRUE

\* fs.access(filePath, fs.constants.F_OK): no error
Exists(path) == Kind(path) # "missing"
\* fs.readFile(filePath): no error
Readable(path) == Kind(path) = "file"

\* the responses: the preflight answer, the pages of the dev server, which
\* quote the pathname or the message of the error, the text of the MVC
\* server, and the contents of a file
Preflight == [status |-> 200, kind |-> "empty", path |-> <<>>]
NotFoundPage(pathname) ==
  [status |-> 404, kind |-> "not found page", path |-> pathname]
ErrorPage(path) == [status |-> 500, kind |-> "error page", path |-> path]
NotFoundText == [status |-> 404, kind |-> "Not found", path |-> <<>>]
Contents(path) == [status |-> 200, kind |-> "contents", path |-> path]

\* res.writeHead(...) and res.end(...)
Respond(r, response) ==
  [r EXCEPT !.pc = "done", !.responses = Append(@, response)]

\* a request as the server receives it
NewRequest(srv, method, target) ==
  [server |-> srv, method |-> method, target |-> target, pc |-> "received",
   filePath |-> <<>>, responses |-> <<>>]

\* DevServer.handleRequest up to fs.access, and the handler of the MVC
\* server up to fs.readFile
Handle(r) ==
  IF r.server = "dev"
  THEN IF r.method = "OPTIONS" THEN Respond(r, Preflight)
       ELSE [r EXCEPT !.pc = "access",
                      !.filePath = Join(DocumentRoot("dev"),
                                        Pathname(r.target))]
  ELSE [r EXCEPT !.pc = "read",
                 !.filePath = Join(DocumentRoot("mvc"), UrlPath(r.target))]

\* a request arrives
Request(srv, method, target) ==
  /\ Len(server.requests) < MaxHttp
  /\ server' = [server EXCEPT !.requests =
                  Append(@, Handle(NewRequest(srv, method, target)))]
  /\ UNCHANGED <<state, storeVars, timeVars, formVars, uiVars, counters, launch>>

\* the callback of fs.access
AccessDone(i) ==
  /\ i \in 1..Len(server.requests)
  /\ server.requests[i].pc = "access"
  /\ LET r == server.requests[i]
     IN server' = [server EXCEPT !.requests[i] =
                     IF Exists(r.filePath) THEN [r EXCEPT !.pc = "read"]
                     ELSE Respond(r, NotFoundPage(Pathname(r.target)))]
  /\ UNCHANGED <<state, storeVars, timeVars, formVars, uiVars, counters, launch>>

\* the callback of fs.readFile
ReadDone(i) ==
  /\ i \in 1..Len(server.requests)
  /\ server.requests[i].pc = "read"
  /\ LET r == server.requests[i]
     IN server' = [server EXCEPT !.requests[i] =
                     IF Readable(r.filePath)
                     THEN Respond(r, Contents(r.filePath))
                     ELSE IF r.server = "dev"
                     THEN Respond(r, ErrorPage(r.filePath))
                     ELSE Respond(r, NotFoundText)]
  /\ UNCHANGED <<state, storeVars, timeVars, formVars, uiVars, counters, launch>>

(***************************************************************************)
(* The start of the Monolithic dev server (notification.js 682-705 and     *)
(* 849-911).  The argument is the sequence of the characters of            *)
(* process.argv[2], empty when there is none.                              *)
(***************************************************************************)
DefaultPort == 8000
MaxPort == 65535
PortRange == 100

\* the arguments a user may give
Arguments ==
  {<<>>, <<"3", "0", "0", "0">>, <<"a", "b", "c">>, <<"0">>, <<"-", "1">>,
   <<"6", "5", "5", "3", "5">>, <<"6", "5", "5", "3", "6">>,
   <<"3", "0", "0", "0", "a">>, <<" ", "3", "0", "0", "0">>}
\* the ports other processes hold when the server starts
PortsInUse ==
  {{}, {3000}, {3000, 3001}, {DefaultPort}, 3000..(3000 + PortRange - 1),
   DefaultPort..(DefaultPort + PortRange - 1), {MaxPort},
   (3000..(3000 + PortRange - 1)) \cup {DefaultPort}}

IsDigit(c) == \E d \in 1..10 : DigitChars[d] = c
RECURSIVE TrimStart(_)
TrimStart(chars) ==
  IF chars # <<>> /\ Head(chars) = " " THEN TrimStart(Tail(chars)) ELSE chars
RECURSIVE DigitPrefix(_)
DigitPrefix(chars) ==
  IF chars = <<>> \/ ~IsDigit(Head(chars)) THEN <<>>
  ELSE <<Head(chars)>> \o DigitPrefix(Tail(chars))

\* parseInt(portArg, 10): white space, a sign and the digits that follow;
\* NaN when there is no digit
NaN == [nan |-> TRUE, value |-> 0]
ParseInt(chars) ==
  LET t == TrimStart(chars)
      signed == t # <<>> /\ Head(t) \in {"-", "+"}
      digits == DigitPrefix(IF signed THEN Tail(t) ELSE t)
  IN IF digits = <<>> THEN NaN
     ELSE [nan |-> FALSE,
           value |-> IF signed /\ Head(t) = "-" THEN 0 - DigitsValue(digits)
                     ELSE DigitsValue(digits)]

\* the argument is never looked at (a mutation of PortOf)
PortOfIgnoresArgument(arg) == DefaultPort

\* isNaN(parsedPort) || parsedPort < 1 || parsedPort > 65535
Invalid(parsedPort) ==
  parsedPort.nan \/ parsedPort.value < 1 \/ parsedPort.value > MaxPort

\* main(): the port new DevServer(port) is given
PortOf(arg) ==
  IF arg = <<>> \/ Invalid(ParseInt(arg)) THEN DefaultPort
  ELSE ParseInt(arg).value

\* main() and start() up to the first isPortAvailable
Main(arg, inUse) ==
  /\ launch.pc = "none"
  /\ launch' = [launch EXCEPT !.pc = "probing", !.arg = arg,
                              !.occupied = inUse, !.inUse = inUse,
                              !.preferred = PortOf(arg), !.port = PortOf(arg),
                              !.warned = arg # <<>> /\ Invalid(ParseInt(arg))]
  /\ UNCHANGED <<state, storeVars, timeVars, formVars, uiVars, counters, server>>

\* process.exit(1) after console.error
ExitWithError(l) == [l EXCEPT !.pc = "exited", !.exit = "error"]

\* one round of the loop of findAvailablePort: the loop ends with
\* "No available ports found", listen throws for a port above 65535, or
\* isPortAvailable resolves
Probe ==
  /\ launch.pc = "probing"
  /\ launch' =
       IF launch.tried = PortRange \/ launch.port > MaxPort
       THEN ExitWithError(launch)
       ELSE IF launch.port \notin launch.occupied
       THEN [launch EXCEPT !.pc = "found"]
       ELSE [launch EXCEPT !.port = @ + 1, !.tried = @ + 1]
  /\ UNCHANGED <<state, storeVars, timeVars, formVars, uiVars, counters, server>>

\* another process binds the port the server has just found free
Take ==
  /\ launch.pc = "found"
  /\ ~launch.taken
  /\ launch' = [launch EXCEPT !.occupied = @ \cup {launch.port},
                              !.taken = TRUE]
  /\ UNCHANGED <<state, storeVars, timeVars, formVars, uiVars, counters, server>>

\* this.server.listen(this.port): the server listens, or its error handler
\* exits
Listen ==
  /\ launch.pc = "found"
  /\ launch' = IF launch.port \in launch.occupied THEN ExitWithError(launch)
               ELSE [launch EXCEPT !.pc = "listening"]
  /\ UNCHANGED <<state, storeVars, timeVars, formVars, uiVars, counters, server>>

\* SIGINT: process.exit(0)
Interrupt ==
  /\ launch.pc = "listening"
  /\ launch' = [launch EXCEPT !.pc = "exited", !.exit = "stopped"]
  /\ UNCHANGED <<state, storeVars, timeVars, formVars, uiVars, counters, server>>

(***************************************************************************)
(* Specifications                                                          *)
(***************************************************************************)
\* a store with no middleware: subscriptions, updates and resets
Next ==
  \/ \E cb \in Callbacks : Subscribe(cb)
  \/ \E t \in 1..Len(issued) : Unsubscribe(t)
  \/ \E p \in Partials : SetStateCall(p)
  \/ MergeStep
  \/ NotifyStep
  \/ Return
  \/ Unwind
  \/ Reset

Spec == Init /\ [][Next]_vars

\* a store with middlewares
NextMw ==
  \/ \E mw \in Middlewares : Use(mw)
  \/ \E cb \in {"observer", "thrower", "setter"} : Subscribe(cb)
  \/ \E p \in {[loading |-> TRUE], [user |-> "alice"],
               [currentSection |-> NotAString]} : SetStateCall(p)
  \/ MiddlewareStep
  \/ MergeStep
  \/ NotifyStep
  \/ Return
  \/ Unwind

SpecMw == Init /\ [][NextMw]_vars

\* a client that reads the document with getState and edits what it got
NextView ==
  \/ GetState
  \/ \E e \in Edits : EditHeld(e)
  \/ Subscribe("observer")
  \/ \E p \in Partials : SetStateCall(p)
  \/ MergeStep
  \/ NotifyStep
  \/ Return

SpecView == Init /\ [][NextView]_vars

\* a store that is persisted to and restored from localStorage
NextPersist ==
  \/ \E keys \in KeySets, writes \in BOOLEAN : Persist(keys, writes)
  \/ \E keys \in KeySets, reads \in BOOLEAN : Restore(keys, reads)
  \/ \E item \in TamperedItems : Tamper(item)
  \/ \E mw \in {"validation", "throwing"} :
       Len(middlewares) < MaxPersistUse /\ Use(mw)
  \/ \E cb \in {"observer", "thrower"} :
       Len(issued) < MaxPersistSubscribe /\ Subscribe(cb)
  \/ \E p \in {[user |-> "alice"], [theme |-> "dark"]} : SetStateCall(p)
  \/ MiddlewareStep
  \/ MergeStep
  \/ NotifyStep
  \/ Return
  \/ Unwind
  \/ Reset

SpecPersist == Init /\ [][NextPersist]_vars

\* notifications a client adds, their timers and the passing of time
NextTimers ==
  \/ \E d \in Durations, r \in Readings :
       AddNotificationCall("saved", "info", d, r)
  \/ TimerFire(clock + 1)
  \/ \E d \in TickSteps : Tick(d)

SpecTimers == Init /\ [][NextTimers]_vars

\* the event loop runs a timer that is due, and until then time passes
FairSpecTimers ==
  /\ SpecTimers
  /\ WF_vars(TimerFire(clock + 1) \/ \E d \in TickSteps : Tick(d))

\* a region that clients show, hide and destroy while time passes
NextRegion ==
  \/ \E m \in Messages, t \in Severities, d \in ShowDurations :
       ShowCall(m, t, d)
  \/ HideCall
  \/ Destroy
  \/ RegionTimerFire
  \/ timers # <<>> /\ Tick(NextDue)

SpecRegion == Init /\ [][NextRegion]_vars

\* a region driven by the store: notifications are added, replaced, removed
\* by their timers and reset
NextDriven ==
  \/ \E r \in Readings : DrivenAdd("saved", "info", MinimalDelay, r)
  \/ \E list \in NotificationLists : DrivenSet(list)
  \/ DrivenReset
  \/ DrivenRemoval
  \/ RegionTimerFire
  \/ timers # <<>> /\ Tick(NextDue)

SpecDriven == Init /\ [][NextDriven]_vars

\* a page whose user follows links, goes back and forward, and scrolls
NextNav ==
  \/ \E i \in 1..Len(Sections) : Navigate(Sections[i])
  \/ \E i \in 1..MaxEntries : PopState(i)
  \/ \E p \in 1..Len(Sections), byUser \in BOOLEAN : Scroll(p, byUser)
  \/ Frame

SpecNav == Init /\ [][NextNav]_vars

\* a page whose user navigates and scrolls while clients call the store
NextSync ==
  \/ middlewares = <<>> /\ Use("validation")
  \/ \E i \in 1..Len(Sections) : Navigate(Sections[i])
  \/ \E i \in 1..MaxEntries : PopState(i)
  \/ \E p \in 1..Len(Sections) : Scroll(p, TRUE)
  \/ Frame
  \/ \E section \in {"about", NotAString} : PageNavigate(section)
  \/ \E updates \in PagePartials : PageSetState(updates, "store setState")
  \/ PageReset

SpecSync == Init /\ [][NextSync]_vars

\* the API demo: its user chooses, submits, retries and clears while the
\* requests settle
NextApp ==
  \/ \E t \in DataTypes : RadioChange(t)
  \/ \E via \in {"submit", "retry"} : HandleFormSubmission(via)
  \/ \E i \in 1..MaxRequests, how \in FetchOutcomes : Settle(i, how)
  \/ ClearResults
  \/ FadeTimerFire
  \/ timers # <<>> /\ Tick(NextDue)

SpecApp == Init /\ [][NextApp]_vars

\* a store whose clients subscribe and call its operations
NextOps ==
  \/ \E cb \in {"observer", "thrower", "setter"} : Subscribe(cb)
  \/ \E l \in BOOLEAN :
       StoreCall("setLoading", SetLoading(state, l), "loading", {"loading"})
  \/ StoreCall("navigate", StoreNavigate(state, "about"), "currentSection",
               {"currentSection"})
  \/ \E st \in StatsUpdates :
       StoreCall("updateStats", UpdateStats(state, st), "stats", DOMAIN st)
  \/ \E id \in FormNames, data \in FormDatas :
       StoreCall("updateFormData", UpdateFormData(state, id, data), "formData",
                 {id})
  \/ \E id \in FormNames :
       StoreCall("clearFormData", ClearFormData(state, id), "formData", {id})
  \/ MergeStep
  \/ NotifyStep
  \/ Return
  \/ Unwind

SpecOps == Init /\ [][NextOps]_vars

\* two forms with custom submit handlers whose submissions may overlap
TwoForms == {"myForm", "contactForm"}
NextOverlap ==
  \/ \E id \in TwoForms :
       id \notin DOMAIN forms /\ RegisterForm(id, ReadmeForm, "custom", TRUE)
  \/ \E id \in TwoForms, k \in 1..2 : Input(id, k, "a@b.c")
  \/ \E id \in TwoForms : HandleSubmit(id)
  \/ SubmitValidate(clock + 1)
  \/ \E i \in 1..MaxSubmits : HandlerSettles(i, Resolved, clock + 1)
  \/ Finally

SpecOverlap == Init /\ [][NextOverlap]_vars

\* the page of the README: the FormManager registers myForm when it
\* starts, the page registers it again with its own handler, and the user
\* types and submits
NextListeners ==
  \/ \E id \in FormIds :
       /\ id \notin DOMAIN forms
       /\ RegisterForm(id, ReadmeForm, "default", TRUE)
  \/ \E id \in FormIds :
       /\ id \in DOMAIN forms
       /\ Bound(id) < MaxSubmits
       /\ RegisterForm(id, ReadmeForm, "custom", TRUE)
  \/ \E id \in FormIds, k \in 1..2, v \in {"", "a@b.c"} : Input(id, k, v)
  \/ \E id \in FormIds : SubmitEvent(id)
  \/ SubmitListener
  \/ SubmitValidate(clock + 1)
  \/ listeners.left = 0
       /\ \E i \in 1..MaxSubmits : HandlerSettles(i, Resolved, clock + 1)
  \/ listeners.left = 0 /\ TimerFire(clock + 1)
  \/ Finally
  \/ listeners.left = 0 /\ timers # <<>> /\ Tick(NextDue)

SpecListeners == Init /\ [][NextListeners]_vars

\* the three counter pages and their users
NextCounters ==
  \/ MvcClick
  \/ MvpClick
  \/ MvvmIncrement
  \/ MvvmDecrement
  \/ \E kind \in {"render", "log"} : MvvmSubscribe(kind)

SpecCounters == Init /\ [][NextCounters]_vars

\* the two servers and their clients
NextServers ==
  \/ \E srv \in Servers, method \in Methods, path \in RequestPaths,
        query \in Queries :
       Request(srv, method, [path |-> path, query |-> query])
  \/ \E i \in 1..MaxHttp : AccessDone(i)
  \/ \E i \in 1..MaxHttp : ReadDone(i)

SpecServers == Init /\ [][NextServers]_vars

\* the dev server is started
NextLaunch ==
  \/ \E arg \in Arguments, inUse \in PortsInUse : Main(arg, inUse)
  \/ Probe
  \/ Take
  \/ Listen
  \/ Interrupt

SpecLaunch == Init /\ [][NextLaunch]_vars

\* a form, its validators and what the user types
NextValidate ==
  \/ \E id \in FormIds, dom \in DomForms :
       id \notin DOMAIN forms /\ RegisterForm(id, dom, "default", TRUE)
  \/ \E id \in FormIds, k \in 1..2, v \in {"required", "email"} :
       AddValidator(id, k, v)
  \/ \E id \in FormIds, k \in 1..2, v \in Values : Input(id, k, v)
  \/ \E id \in FormIds \cup {UnknownForm} : ValidateFormCall(id)

SpecValidate == Init /\ [][NextValidate]_vars

\* the form of the README and its submissions
NextSubmit ==
  \/ \E id \in FormIds, onSubmit \in {"default", "custom"},
        resetOnSubmit \in BOOLEAN :
       /\ id \notin DOMAIN forms
       /\ RegisterForm(id, ReadmeForm, onSubmit, resetOnSubmit)
  \/ \E id \in FormIds, k \in 1..2, v \in {"", "a@b.c"} : Input(id, k, v)
  \/ \E id \in FormIds \cup {UnknownForm} : HandleSubmit(id)
  \/ SubmitValidate(clock + 1)
  \/ \E i \in 1..MaxSubmits, settled \in Outcomes :
       HandlerSettles(i, settled, clock + 1)
  \/ TimerFire(clock + 1)
  \/ Finally
  \/ timers # <<>> /\ Tick(NextDue)

SpecSubmit == Init /\ [][NextSubmit]_vars

\* what goes on without the user: a running handleSubmit continues, the
\* promise of a submit handler settles, a due timer runs, time passes
Progress ==
  \/ SubmitValidate(clock + 1)
  \/ \E i \in 1..MaxSubmits, settled \in Outcomes :
       HandlerSettles(i, settled, clock + 1)
  \/ TimerFire(clock + 1)
  \/ Finally
  \/ timers # <<>> /\ Tick(NextDue)

\* the event loop does not stop while something is ready to go on
FairSpecSubmit == SpecSubmit /\ WF_vars(Progress)


(***************************************************************************)
(* Properties of the store with no middleware (Spec)                       *)
(***************************************************************************)
Frames == {stack[n] : n \in 1..Len(stack)}
SetStateFrames == {f \in Frames : f.op = "setState"}
Tickets(entries) == [n \in 1..Len(entries) |-> entries[n].ticket]
Times(entries, t) == Cardinality({n \in 1..Len(entries) : entries[n].ticket = t})
Ended(f) == Finished(f) \/ f.pc = "threw"

\* C1: after any sequence of setState calls on a store with no middleware,
\* each key of the document holds the value of the last partial that
\* contained it, a key no partial contained holds its initial value, and the
\* document has no other key.
C1_LastWriterWins ==
  (Idle /\ middlewares = <<>>) =>
    /\ DOMAIN state = DOMAIN InitialState \cup DOMAIN lastWrite
    /\ \A k \in DOMAIN state :
         state[k] = IF k \in DOMAIN lastWrite THEN lastWrite[k]
                    ELSE InitialState[k]

C1_Witness ==
  /\ Idle
  /\ DOMAIN lastWrite = {"currentSection", "loading", "theme"}
  /\ lastWrite["currentSection"] = NotAString
  /\ state["currentSection"] = NotAString
  /\ state["loading"] = FALSE
  /\ state["user"] = Null

\* C2 as claimed: every setState call, however it ends, has invoked each
\* subscription in place at the time of the call exactly once, with the
\* document before the call as the second argument.
C2_EveryCallInvokesAll ==
  \A f \in SetStateFrames :
    Ended(f) =>
      /\ \A n \in 1..Len(f.subsAtCall) :
           Times(f.invoked, f.subsAtCall[n].ticket) = 1
      /\ \A n \in 1..Len(f.invoked) : f.invoked[n].prev = f.docAtCall

\* C2 amended: a setState call that returns normally has invoked each
\* subscription in place at the time of the call exactly once and nothing
\* else, and in every call, also one that ends in an exception, the second
\* argument of each invocation is the document as it was before the call.
C2_ReturnedCallInvokedAll ==
  \A f \in SetStateFrames :
    /\ Finished(f) =>
         /\ Len(f.invoked) = Len(f.subsAtCall)
         /\ \A n \in 1..Len(f.subsAtCall) :
              Times(f.invoked, f.subsAtCall[n].ticket) = 1
    /\ \A n \in 1..Len(f.invoked) : f.invoked[n].prev = f.docAtCall

C2_Witness ==
  \E f \in SetStateFrames :
    /\ Finished(f)
    /\ Len(f.invoked) = 2
    /\ f.docAtCall # state
    /\ f.docAtCall # InitialState

\* C3: in one setState call the subscribers are invoked in the order of their
\* subscribe() calls, each only after the merge (the first one receives a
\* document that holds the merged partial), and the call returns normally
\* only when all of them have been invoked.
C3_StateInv ==
  \A f \in SetStateFrames :
    /\ \A m, n \in 1..Len(f.invoked) :
         m < n => f.invoked[m].ticket < f.invoked[n].ticket
    /\ \A n \in 1..Len(f.invoked) : f.invoked[n].merged
    /\ f.invoked # <<>> =>
         \A k \in DOMAIN f.processed : f.invoked[1].new[k] = f.processed[k]

\* C3: the ordering above holds in every state, and a setState call is left
\* normally only after every subscriber in place at the call was invoked.
C3_OrderedAfterMergeBeforeReturn ==
  /\ []C3_StateInv
  /\ [][(Len(stack') < Len(stack) /\ Top.pc # "threw" /\ Top.op = "setState")
          => Tickets(Top.invoked) = Tickets(Top.subsAtCall)]_vars

C3_Witness ==
  \E f \in SetStateFrames :
    /\ Finished(f)
    /\ Len(f.invoked) = 2
    /\ f.invoked[1].cb # f.invoked[2].cb
    /\ f.invoked[1].new # f.docAtCall

\* C4 as claimed: a callback is never invoked once one of its unsubscribe
\* functions has been called (and it has not been subscribed again).
C4_NeverInvokedAfterUnsubscribe ==
  \A f \in SetStateFrames : \A n \in 1..Len(f.invoked) : ~f.invoked[n].wasDead

\* C4 amended: a callback whose unsubscribe function has been called is
\* invoked by no fan-out that starts after that call, until it is subscribed
\* again; a fan-out already in progress still invokes it.
C4_NotInvokedByLaterFanOut ==
  \A f \in Frames :
    \A n \in 1..Len(f.invoked) : f.invoked[n].cb \notin f.deadAtStart

C4_Witness ==
  \E f \in SetStateFrames :
    /\ Finished(f)
    /\ "observer" \in f.deadAtStart
    /\ f.invoked # <<>>
    /\ unsubCalled # {}

\* C5 as claimed: a subscription stays in place until its own unsubscribe
\* function is called, also when another subscription of the same callback
\* is unsubscribed.
C5_SubscriptionsIndependent ==
  \A t \in 1..Len(issued) :
    t \notin unsubCalled =>
      \E n \in 1..Len(subscribers) : subscribers[n].ticket = t

(***************************************************************************)
(* Properties of the middleware pipeline and of exceptions (SpecMw)        *)
(***************************************************************************)
\* the partial the pipeline holds after the first n middleware calls of f
PendingAfter(f, n) ==
  IF n = 0 THEN f.updates
  ELSE IF f.trace[n].result.kind = "value" THEN f.trace[n].result.value
  ELSE f.trace[n].given

\* C6: setState calls the registered middlewares in registration order, each
\* with the document before the update and the partial left by the one
\* before it (the caller's partial for the first); a middleware that returns
\* nothing leaves the pending partial as it was; and the partial left by the
\* last one is what is merged into the document.
C6_MiddlewarePipeline ==
  \A f \in SetStateFrames :
    /\ Len(f.trace) <= Len(middlewares)
    /\ \A n \in 1..Len(f.trace) :
         /\ f.trace[n].mw = middlewares[n]
         /\ f.trace[n].prev = f.docAtCall
         /\ f.trace[n].given = PendingAfter(f, n - 1)
    /\ f.merged =>
         /\ Len(f.trace) = Len(middlewares)
         /\ f.invoked # <<>> =>
              LET merged == PendingAfter(f, Len(f.trace))
                  new == f.invoked[1].new
              IN /\ DOMAIN new = DOMAIN f.docAtCall \cup DOMAIN merged
                 /\ \A k \in DOMAIN new :
                      new[k] = IF k \in DOMAIN merged THEN merged[k]
                               ELSE f.docAtCall[k]

C6_Witness ==
  \E f \in SetStateFrames :
    /\ f.invoked # <<>>
    /\ Len(f.trace) = 2
    /\ f.trace[1].result.kind = "nothing"
    /\ f.trace[2].mw = "validation"
    /\ f.trace[2].given # f.trace[2].result.value

\* C8: an exception thrown by a middleware or a subscriber during setState
\* goes to the caller of that setState (the client, or the callback that
\* called it), and nothing is invoked after a subscriber that threw.
C8_NothingAfterThrower ==
  \A f \in Frames :
    /\ \A n \in 1..Len(f.invoked) :
         f.invoked[n].cb = "thrower" => n = Len(f.invoked) /\ f.pc = "threw"
    /\ \A n \in 1..Len(f.trace) :
         f.trace[n].result.kind = "throw" =>
           n = Len(f.trace) /\ f.pc = "threw" /\ f.invoked = <<>>

\* C8: nothing runs after a throw, and the frame that threw is left at once,
\* with the exception handed to its caller.
C8_ExceptionsPropagate ==
  /\ []C8_NothingAfterThrower
  /\ [][(~Idle /\ Top.pc = "threw") =>
          /\ Len(stack') = Len(stack) - 1
          /\ IF Len(stack) = 1
             THEN Top.by = "client" => outcome' = "threw"
             ELSE stack'[Len(stack')].pc = "threw"]_vars

C8_Witness ==
  /\ ~Idle
  /\ Top.pc = "threw"
  /\ Top.merged
  /\ Len(Top.trace) = 1
  /\ Len(Top.subsAtCall) = 2
  /\ Len(Top.invoked) = 1

(***************************************************************************)
(* Properties of getState (SpecView)                                       *)
(***************************************************************************)
\* the marks the edits of a client leave on an object
Edited(obj) ==
  \/ "injected" \in DOMAIN obj
  \/ "user" \notin DOMAIN obj
  \/ obj["currentSection"] = "edited"

\* C7: adding, removing or replacing a top-level key of the object getState()
\* returned changes neither the document nor what subscribers receive later.
C7_NoEditInDocument ==
  /\ ~Edited(state)
  /\ \A f \in Frames : \A n \in 1..Len(f.invoked) : ~Edited(f.invoked[n].new)

\* C7: no edit ever shows in the document, and a step that edits the object
\* getState() returned leaves the document as it is.
C7_GetStateGivesACopy ==
  /\ []C7_NoEditInDocument
  /\ [][held'.obj # held.obj => state' = state]_vars

C7_Witness ==
  /\ held.has
  /\ "injected" \in DOMAIN held.obj
  /\ "user" \notin DOMAIN held.obj
  /\ held.obj["currentSection"] = "edited"
  /\ \E f \in SetStateFrames : f.invoked # <<>> /\ f.docAtCall # InitialState

(***************************************************************************)
(* Properties of persist and restore (SpecPersist)                         *)
(***************************************************************************)
RestoreFrames == {f \in Frames : f.by = "restore"}

\* C9 as claimed: when restore catches an exception, the document is what it
\* was before restore was called.
C9_FailedRestoreLeavesDocument ==
  \A f \in RestoreFrames : f.pc = "threw" => state = f.docAtCall

\* after holds the stored values at the requested keys the stored object
\* has, and the values of before at every other key
RestoredExactly(before, stored, keys, after) ==
  /\ DOMAIN after = DOMAIN before \cup (keys \cap DOMAIN stored)
  /\ \A k \in DOMAIN after :
       after[k] = IF k \in keys \cap DOMAIN stored THEN stored[k]
                  ELSE before[k]

\* C10 as claimed, its second half: when the restore(keys) that follows a
\* persist ends, the document holds the persisted values at the requested
\* keys that were persisted and is unchanged at every other key.
C10_RestoreSetsPersistedKeys ==
  \A f \in RestoreFrames :
    (Ended(f) /\ storage.kind = "object" /\ storage.obj # ForeignObject) =>
      RestoredExactly(f.docAtCall, storage.obj, f.keys, state)

\* C10 amended: a persist(keys) that writes stores exactly the requested keys
\* whose document value is defined, with the document's values as JSON
\* serialises them; restore(keys)
\* passes exactly the requested keys of the stored object to setState, with
\* the stored values; and on a store with no middleware that update leaves
\* the document with the stored values at those keys and unchanged at every
\* other key.
C10_RestorePart ==
  \A f \in RestoreFrames :
    storage.kind = "object" =>
      /\ DOMAIN f.updates = f.keys \cap DOMAIN storage.obj
      /\ \A k \in DOMAIN f.updates : f.updates[k] = storage.obj[k]
      /\ (f.mws = <<>> /\ f.merged) =>
           RestoredExactly(f.docAtCall, storage.obj, f.keys, state)

\* C10 amended: the restore part above in every state, and every persist
\* that writes stores exactly the requested, defined keys.
C10_PersistThenRestore ==
  /\ []C10_RestorePart
  /\ [][\A keys \in KeySets :
          Persist(keys, TRUE) =>
            /\ storage'.kind = "object"
            /\ DOMAIN storage'.obj =
                 {k \in keys : /\ k \in DOMAIN state
                               /\ k \in ScalarKeys => state[k] # Undefined}
            /\ \A k \in DOMAIN storage'.obj : storage'.obj[k] = state[k]]_vars

C10_Witness ==
  \E f \in RestoreFrames :
    /\ Finished(f)
    /\ f.mws = <<>>
    /\ storage = ObjectText([user |-> "alice", formData |-> EmptyObject])
    /\ f.docAtCall["user"] = Null
    /\ state["user"] = "alice"
    /\ "theme" \in DOMAIN state

(***************************************************************************)
(* Properties of the form coordinator (SpecValidate, SpecSubmit)           *)
(***************************************************************************)
Submissions == {submissions[i] : i \in 1..Len(submissions)}
RaisedTypes(s) == {s.raised[k].type : k \in 1..Len(s.raised)}
Shows(doc, type, message) ==
  \E k \in 1..Len(doc["notifications"]) :
    /\ doc["notifications"][k].type = type
    /\ doc["notifications"][k].message = message

\* every validator gives true for the value of the field
FieldPasses(field) ==
  \A j \in 1..Len(field.validators) :
    ValidatorResult(field.validators[j], field.value) = Passed
FormFails(fields) == \E k \in 1..Len(fields) : ~FieldPasses(fields[k])
Fields == {forms[id].fields[k] : id \in DOMAIN forms, k \in 1..2}
\* the fields validated since their value or their validators last changed
Validated == {f \in Fields : f.ran # <<>>}
Attached(f) == {f.validators[j] : j \in 1..Len(f.validators)}

\* C11: a submission of a registered form in which a field fails validation
\* never invokes the submit handler, raises an error notification (it is
\* appended to the document's list) and raises no success notification.
C11_Aborted(s) ==
  /\ s.pc = "finally"
  /\ s.path = "invalid"
  /\ s.called = 0
  /\ RaisedTypes(s) = {"error"}

C11_AbortStep ==
  \A i \in 1..Len(submissions) :
    (submissions[i].pc = "validate"
       /\ FormFails(forms[submissions[i].form].fields))
    => /\ Len(submissions') >= i
       /\ C11_Aborted(submissions'[i])
       /\ Len(state'["notifications"]) = Len(state["notifications"]) + 1
       /\ state'["notifications"][Len(state'["notifications"])].type = "error"

C11_InvalidFormIsNotSubmitted ==
  /\ [](\A s \in Submissions : s.path = "invalid" => C11_Aborted(s))
  /\ [][C11_AbortStep]_vars

C11_Witness ==
  \E s \in Submissions :
    /\ C11_Aborted(s)
    /\ \A k \in 1..2 : forms[s.form].fields[k].value = ""
    /\ Shows(state, "error", FixErrorsMessage)

\* C12: every handleSubmit call on a registered form sets loading to true,
\* and eventually runs its finally block, which sets loading to false; this
\* holds on the three paths (invalid form, handler success, handler failure).
C12_LoadingIsCleared ==
  /\ \A n \in 1..MaxSubmits : (n <= submitted) ~> (n \in finished)
  /\ [][/\ submitted' > submitted => state'["loading"] = TRUE
        /\ finished' # finished => state'["loading"] = FALSE]_vars
  /\ [](\A s \in Submissions :
          s.pc = "finally" => s.path \in {"invalid", "success", "failure"})

C12_Witness ==
  /\ finished = {1, 2}
  /\ state["loading"] = FALSE
  /\ Shows(state, "error", "boom")
  /\ Shows(state, "success", SuccessMessage)

\* C13: when the submit handler throws or rejects, whatever the value,
\* handleSubmit does not reject: it raises exactly one error notification,
\* with the message of the thrown value or the generic text, raises no
\* success notification and does not reset the form.
C13_HandlerFailureIsReported ==
  \A s \in Submissions :
    s.settled = "rejected"
    => /\ ~s.rejects
       /\ s.raised = <<[type |-> "error",
                        message |-> IF Truthy(s.thrown.message)
                                    THEN s.thrown.message
                                    ELSE GenericMessage]>>
       /\ ~s.reset

\* the first validator that does not give true, or the last validator
FirstFailure(f) ==
  IF FieldPasses(f) THEN Len(f.validators)
  ELSE CHOOSE j \in 1..Len(f.validators) :
         /\ ValidatorResult(f.validators[j], f.value) # Passed
         /\ \A h \in 1..(j - 1) :
              ValidatorResult(f.validators[h], f.value) = Passed

\* C14: validateField stops at the first validator that does not give true:
\* the validators after it are not run and the error list of the field holds
\* only its message.
C14_StopsAtFirstFailure ==
  \A f \in Validated :
    /\ f.ran = SubSeq(f.validators, 1, FirstFailure(f))
    /\ Len(f.errors) <= 1

\* C15 as stated: a validated field with the required validator and a value
\* that is empty after trimming is invalid and shows the required message,
\* whatever else is attached and in whatever order.
C15_RequiredMessageAlwaysShown ==
  \A f \in Validated :
    ("required" \in Attached(f) /\ Trim(f.value) = "")
    => (~f.isValid /\ f.shown = RequiredMessage)

\* C15: a validated field with the required validator and a value that is
\* empty after trimming is invalid; it shows the message of the first
\* attached validator that rejects the value, which is the required message
\* when required is the first validator, as discovery attaches it.
C15_RequiredFailsFirstMessageShown ==
  \A f \in Validated :
    ("required" \in Attached(f) /\ Trim(f.value) = "")
    => /\ ~f.isValid
       /\ f.cls = "error"
       /\ f.shown = ValidatorResult(f.validators[FirstFailure(f)], f.value)
       /\ f.validators[1] = "required" => f.shown = RequiredMessage

C15_Witness ==
  \E f \in Validated :
    /\ f.validators = <<"required", "email">>
    /\ f.value = " "
    /\ f.errors = <<RequiredMessage, EmailMessage>>
    /\ f.shown = RequiredMessage

\* C16: validateForm gives true exactly when every field of the form passes
\* its validators, validates every field whether or not an earlier one
\* failed, and gives false for a form id that is not registered.
C16_ValidateFormChecksEveryField ==
  lastCall.op = "validateForm"
  => IF lastCall.form \notin DOMAIN forms
     THEN lastCall.result = FALSE
     ELSE LET fields == forms[lastCall.form].fields
          IN /\ lastCall.result = (\A k \in 1..Len(fields) :
                                     FieldPasses(fields[k]))
             /\ lastCall.visited = 1..Len(fields)
             /\ \A k \in 1..Len(fields) :
                  /\ fields[k].ran = fields[k].validators
                  /\ fields[k].isValid = FieldPasses(fields[k])

C16_Witness ==
  /\ lastCall.op = "validateForm"
  /\ lastCall.form \in DOMAIN forms
  /\ lastCall.result = FALSE
  /\ lastCall.visited = {1, 2}
  /\ \A k \in 1..2 : /\ ~forms[lastCall.form].fields[k].isValid
                     /\ forms[lastCall.form].fields[k].value = ""

\* C17: right after a submission succeeded with the default submit handler
\* and resetOnSubmit not false, a success notification has been raised,
\* every field of the form is valid with no errors, and the document's
\* formData has no entry for the form.
C17_SuccessfulSubmissionResets ==
  \A s \in Submissions :
    (/\ s.pc = "finally"
     /\ s.settled = "resolved"
     /\ forms[s.form].onSubmit = "default"
     /\ forms[s.form].resetOnSubmit)
    => /\ s.raised = <<[type |-> "success", message |-> SuccessMessage]>>
       /\ Shows(state, "success", SuccessMessage)
       /\ \A k \in 1..Len(forms[s.form].fields) :
            LET f == forms[s.form].fields[k]
            IN f.isValid /\ f.errors = <<>> /\ f.shown = Null
       /\ s.form \notin DOMAIN state["formData"]

C17_Witness ==
  \E s \in Submissions :
    /\ s.pc = "finally"
    /\ s.settled = "resolved"
    /\ forms[s.form].onSubmit = "default"
    /\ forms[s.form].resetOnSubmit
    /\ s.data["username"] = "a@b.c"
    /\ s.form \notin DOMAIN state["formData"]

(***************************************************************************)
(* Properties of the notifications and their timers (SpecTimers)           *)
(***************************************************************************)
\* the record of the k-th addNotification call is in the document's list
Present(k) ==
  \E i \in 1..Len(state["notifications"]) :
    state["notifications"][i] =
      Notification(added[k].id, added[k].message, added[k].type,
                   added[k].duration)

\* the timer of the k-th addNotification call has run
Fired(k) == \A i \in 1..Len(timers) : timers[i].n # k

\* three notifications with durations 100, 200 and 300 were added at the
\* same time, 150 units of time ago
AddedTogether150 ==
  /\ Len(added) = 3
  /\ added[1].duration = 100
  /\ added[2].duration = 200
  /\ added[3].duration = 300
  /\ \A k \in 1..3 : added[k].age = 150

\* C18: with durations 100, 200 and 300 added together, at time 150 exactly
\* the first notification has been removed and the other two are still in
\* the list, whatever the clock gave when they were created.
C18_EachTimerRemovesOnlyItsOwn ==
  AddedTogether150 => (~Present(1) /\ Present(2) /\ Present(3))

\* C19: no two notifications in the document's list have the same id.
C19_IdentifiersUnique ==
  \A i, j \in 1..Len(state["notifications"]) :
    i # j => state["notifications"][i].id # state["notifications"][j].id

\* C20: every notification a client adds is absent from the document's list
\* when its timer has run, and its timer runs eventually; no call of
\* removeNotification by the client is needed.
C20_RemovedByItsTimer ==
  /\ \A k \in 1..MaxNotifications :
       (Len(added) >= k) ~> (Len(added) >= k /\ Fired(k) /\ ~Present(k))
  /\ [][\A k \in 1..Len(added) :
          (~Fired(k) /\ Fired(k)') => ~Present(k)']_vars

C20_Witness ==
  /\ Len(added) = 2
  /\ Fired(1)
  /\ ~Present(1)
  /\ ~Fired(2)
  /\ Present(2)
  /\ timers[1].remaining = 150


(***************************************************************************)
(* The notification region                                                 *)
(***************************************************************************)
SeverityClasses == {"success", "error", "warning", "info"}
\* the timers of the last show call that have not run yet
Pending(kind) ==
  \E i \in 1..Len(timers) :
    timers[i].kind = kind /\ timers[i].n = notifier.calls
\* the region holds what the last show call put there: no hide, clear or
\* destroy call came after it
Untouched == notifier.calls > 0 /\ ~notifier.touched

\* C21: after a show call the text of the region is the message of that call
\* and the only severity class of the region is the severity of that call,
\* whatever the region displayed when show was called.
C21_OnlyTheLastShowIsDisplayed ==
  Untouched =>
    /\ notifier.text = notifier.last.message
    /\ notifier.classes \cap SeverityClasses = {notifier.last.type}

\* show(m2, error) was called on a region that displayed m1 as info
C21_Witness ==
  /\ Untouched
  /\ notifier.before.text = "m1"
  /\ {"info", "show"} \subseteq notifier.before.classes
  /\ notifier.last.message = "m2"
  /\ notifier.last.type = "error"

\* C22: after the last show call the region carries its message and its
\* severity class, and once both timers of that call have run the region is
\* not visible, whatever the duration.
C22_HiddenOnceItsTimersHaveRun ==
  Untouched =>
    /\ notifier.text = notifier.last.message
    /\ notifier.last.type \in notifier.classes
    /\ (~Pending("show") /\ ~Pending("hide") => "show" \notin notifier.classes)

\* C29: from the time its own "show" timer has run until its own "hide"
\* timer runs, the notification of the last show call is visible unless
\* hide, clear or destroy was called; and no timer makes a region visible
\* that was cleared and not shown again.
C29_EarlierTimersLeaveTheRegionAlone ==
  /\ (/\ Untouched
      /\ ~Pending("show")
      /\ \E i \in 1..Len(timers) : /\ timers[i].kind = "hide"
                                   /\ timers[i].n = notifier.calls
                                   /\ timers[i].remaining > 0
      => "show" \in notifier.classes)
  /\ (notifier.text = "" => "show" \notin notifier.classes)


\* the identifiers handleNotifications displays in a step
NewlyShown ==
  SubSeq(notifier'.shown, Len(notifier.shown) + 1, Len(notifier'.shown))

\* C23: whenever the store notifies the NotificationManager, each
\* notification it displays has an identifier that was neither in the list
\* before the update nor in the active set, and is displayed once; so a
\* notification that is in the list before and after an update is not
\* displayed by it.
C23_DisplaysOnlyNewIdentifiers ==
  [][\A i \in 1..Len(NewlyShown) :
       /\ NewlyShown[i] \notin Ids(state["notifications"])
       /\ NewlyShown[i] \notin notifier.active
       /\ \A j \in 1..Len(NewlyShown) : NewlyShown[j] = NewlyShown[i] => j = i
    ]_vars

\* notification 1 was displayed and became visible, notification 2 joined
\* it in the list later, and each of them has been displayed once
C23_Witness ==
  /\ Len(state["notifications"]) = 2
  /\ state["notifications"][1].id = 1
  /\ state["notifications"][2].id = 2
  /\ notifier.shown = <<1, 2>>
  /\ notifier.calls = 2
  /\ Pending("show")
  /\ \A i \in 1..Len(timers) : timers[i].kind = "show" => timers[i].n = 2


(***************************************************************************)
(* The navigation                                                          *)
(***************************************************************************)
\* C24: exactly one section carries the "active" class, the one the
\* Navigation's current section names.
C24_ActiveSectionIsTheCurrentOne == nav.active = {nav.currentSection}

\* C25: an explicit navigation puts exactly one entry after the current one
\* (the entries behind it are dropped, as pushState does), a navigation
\* that answers a popstate event leaves the entries as they are, and a
\* scroll event or a scroll-spy frame changes neither the number of entries
\* nor the current index nor any entry but the current one.
C25_HistoryEntries ==
  [][/\ nav'.event = "navigate" =>
          /\ nav'.index = nav.index + 1
          /\ nav'.entries = Append(SubSeq(nav.entries, 1, nav.index),
                                   nav'.explicit)
     /\ nav'.event = "popstate" => nav'.entries = nav.entries
     /\ nav'.event \in {"scroll", "frame"} =>
          /\ Len(nav'.entries) = Len(nav.entries)
          /\ nav'.index = nav.index
          /\ \A i \in 1..Len(nav.entries) :
               i # nav.index => nav'.entries[i] = nav.entries[i]
    ]_vars

\* after two navigations and a step back, a scroll-spy frame has replaced
\* the section of the current entry, which is not the last one
C25_Witness ==
  /\ nav.event = "frame"
  /\ Len(nav.entries) = 3
  /\ nav.index = 2
  /\ nav.entries[2] = nav.currentSection
  /\ nav.entries[2] # nav.explicit

\* C28: while the user has not scrolled since the last explicit navigation
\* or popstate event, the current section of the Navigation and of the
\* store is the section of that navigation.
C28_ScrollSpyKeepsTheNavigatedSection ==
  ~nav.manual =>
    /\ nav.currentSection = nav.explicit
    /\ state["currentSection"] = nav.explicit


(***************************************************************************)
(* The API demo                                                            *)
(***************************************************************************)
\* C26: when a request fails (the fetch is rejected or the status is not
\* OK) the step that handles the failure ends with the error state
\* displayed, the loading indicator hidden and the submit button enabled,
\* and sends no request; a request is only ever sent by the submit or the
\* retry handler.
C26_FailureEndsInErrorState ==
  [][/\ (/\ spa'.settled # spa.settled
         /\ spa'.settled.outcome \in {"http", "network"})
          => /\ spa'.errorShown
             /\ ~spa'.loading
             /\ ~spa'.disabled
             /\ spa'.sent = spa.sent
     /\ spa'.sent # spa.sent => spa'.event \in {"submit", "retry"}
    ]_vars

\* the second request, sent by a retry, has failed too
C26_Witness ==
  /\ spa.settled.n = 2
  /\ spa.settled.outcome = "network"
  /\ spa.event = "settle"
  /\ spa.errorShown
  /\ spa.requests = <<>>

\* C30: the results on display are titled and laid out by the data type of
\* the data they show, and a failure message names the data type of the
\* request that failed.
C30_DisplayedTypeIsTheFetchedOne ==
  /\ spa.resultsShown =>
       /\ spa.title.type = Capitalize(spa.currentData.type)
       /\ spa.layout = spa.currentData.type
  /\ spa.errorShown /\ Len(spa.errorMessage) > 1 =>
       spa.errorMessage[2] = spa.settled.type


(***************************************************************************)
(* The operations of the store                                             *)
(***************************************************************************)
StoreOps ==
  {"setLoading", "navigate", "updateStats", "updateFormData", "clearFormData"}

\* the only changes from document `before` to document `after` are in the
\* part the call of frame f names
OnlyOwnPart(before, after, f) ==
  LET own == CASE f.by = "setLoading" -> "loading"
               [] f.by = "navigate" -> "currentSection"
               [] f.by = "updateStats" -> "stats"
               [] OTHER -> "formData"
      inner == IF f.by \in {"updateFormData", "clearFormData"}
               THEN "formData" ELSE "stats"
  IN /\ DOMAIN after = DOMAIN before
     /\ \A k \in DOMAIN before \ {own, inner} : after[k] = before[k]
     /\ f.by \in {"setLoading", "navigate"} => after[inner] = before[inner]
     /\ \A x \in (DOMAIN before[inner] \cup DOMAIN after[inner]) \ f.keys :
          /\ x \in DOMAIN before[inner]
          /\ x \in DOMAIN after[inner]
          /\ after[inner][x] = before[inner][x]

\* every subscription in place when the call of frame f was made has been
\* invoked by it with a document whose loading is true
AllSawLoading(f) ==
  /\ Len(f.invoked) = Len(f.subsAtCall)
  /\ \A i \in 1..Len(f.subsAtCall) :
       /\ f.invoked[i].ticket = f.subsAtCall[i].ticket
       /\ f.invoked[i].new["loading"] = TRUE

\* no subscriber the call of frame f has invoked threw or called setState
Undisturbed(f) ==
  \A i \in 1..Len(f.invoked) :
    /\ f.invoked[i].cb # "thrower"
    /\ f.invoked[i].cb = "setter" => f.invoked[i].new["loading"] # TRUE

\* a client's call of one of the five operations has merged
Merged == Len(stack) = 1 /\ Top.by \in StoreOps /\ Top.merged

\* the call is about to return or to throw
Ending == Merged /\ (Finished(Top) \/ Top.pc = "threw")

C31_LoadingWhileSubmitting ==
  (\E i \in 1..Len(submissions) :
     submissions[i].pc \in {"validate", "awaiting"})
    => state["loading"] = TRUE


(***************************************************************************)
(* Nested updates and calls that end in an exception                       *)
(***************************************************************************)
\* C34: in every invocation of a subscriber by setState the first argument
\* is the document produced by the update whose pre-update document is the
\* second argument, also when a subscriber calls setState from its callback.
C34_ArgumentsOfOneUpdate ==
  \A k \in 1..Len(stack) :
    stack[k].op = "setState" =>
      \A m \in 1..Len(stack[k].invoked) :
        /\ stack[k].invoked[m].prev = stack[k].prevState
        /\ stack[k].invoked[m].new =
             Merge(stack[k].prevState, stack[k].processed)

\* C35: a setState call that ends in an exception, thrown by a middleware or
\* by a subscriber, leaves the document as it was before the call.
C35_ExceptionLeavesDocument ==
  (~Idle /\ Top.op = "setState" /\ Top.pc = "threw")
    => state = Top.docAtCall


(***************************************************************************)
(* The Navigation and the store                                            *)
(***************************************************************************)
\* C33: between two handlers the current section of the Navigation is the
\* currentSection of the store, after navigations, popstate events,
\* scroll-spy updates, navigate and setState calls on the store and resets.
C33_NavigationFollowsStore == nav.currentSection = state["currentSection"]

\* a client has sent the store to a section the page does not have, after
\* the user followed a link and scrolled, and the Navigation shows none
C33_Witness ==
  /\ nav.event = "store setState"
  /\ state["currentSection"] = "nowhere"
  /\ nav.active = {}
  /\ nav.manual
  /\ Len(nav.entries) > 1


\* C32: a submit event on a registered form leads to at most one run of
\* handleSubmit and to at most one invocation of the submit handler of the
\* form, also when the form was registered a second time.
C32_OneRunPerSubmitEvent ==
  /\ Cardinality(listeners.started) <= 1
  /\ Cardinality({i \in 1..Len(submissions) :
                    /\ submissions[i].n \in listeners.started
                    /\ submissions[i].called > 0}) <= 1


(***************************************************************************)
(* The counter demos                                                       *)
(***************************************************************************)
\* C36: in the MVC, MVP and MVVM counter demos the displayed number is the
\* count of the model, the count is the number of increment clicks minus
\* the number of decrement clicks, and every listener of the MVVM view model
\* was called once when it subscribed and once per change since, the last
\* time with the current count.
C36_CountersShowTheirCount ==
  /\ \A demo \in {"mvc", "mvp"} :
       /\ NumberOf(counters[demo].text) = counters[demo].count
       /\ counters[demo].count = counters[demo].clicks
  /\ NumberOf(counters.mvvm.text) = counters.mvvm.count
  /\ counters.mvvm.count = counters.mvvm.increments - counters.mvvm.decrements
  /\ \A k \in 1..Len(counters.mvvm.listeners) :
       /\ counters.mvvm.listeners[k].calls
            = 1 + counters.mvvm.listeners[k].changes
       /\ counters.mvvm.listeners[k].last = counters.mvvm.count

\* every page was clicked, the MVVM page down below zero, and a listener
\* that subscribed after a click has since seen a change
C36_Witness ==
  /\ counters.mvc.clicks = MaxClicks
  /\ counters.mvp.clicks > 0
  /\ counters.mvvm.count < 0
  /\ counters.mvvm.increments > 0
  /\ \E k \in 2..Len(counters.mvvm.listeners) :
       /\ counters.mvvm.listeners[k].changes > 0
       /\ counters.mvvm.listeners[k].changes
            < counters.mvvm.increments + counters.mvvm.decrements


(***************************************************************************)
(* The static file servers                                                 *)
(***************************************************************************)
\* the requests that were answered
Answered == {i \in 1..Len(server.requests) : server.requests[i].pc = "done"}
\* the file a server maps the target of a request to
Mapped(r) ==
  Join(DocumentRoot(r.server),
       IF r.server = "dev" THEN Pathname(r.target) ELSE UrlPath(r.target))
\* the body is a page that quotes the requested path ("/" is part of every
\* pathname)
QuotesPath(response, target) ==
  /\ response.kind = "not found page"
  /\ response.path = target.path \/ target.path = <<>>
\* the prefix relation on paths
Under(root, path) ==
  Len(path) > Len(root) /\ SubSeq(path, 1, Len(root)) = root

C38_StatusTellsWhatHappened ==
  \A i \in 1..Len(server.requests) :
    LET r == server.requests[i]
        file == Mapped(r)
    IN r.method = "GET" =>
         /\ Len(r.responses) = IF r.pc = "done" THEN 1 ELSE 0
         /\ r.target.path = <<>> =>
              file = Append(DocumentRoot(r.server), "index.html")
         /\ r.pc = "done" =>
              r.responses[1].status =
                CASE Kind(file) = "file" -> 200
                  [] Kind(file) = "missing" -> 404
                  [] OTHER -> 500
         /\ (r.pc = "done" /\ Kind(file) = "file") =>
              r.responses[1] = Contents(file)

\* C39: every file whose contents a server sends lies under the document
\* root of that server.
C39_ServedFilesUnderRoot ==
  \A i \in 1..Len(server.requests) :
    \A k \in 1..Len(server.requests[i].responses) :
      server.requests[i].responses[k].kind = "contents" =>
        Under(DocumentRoot(server.requests[i].server),
              server.requests[i].responses[k].path)


(***************************************************************************)
(* The port of the dev server                                              *)
(***************************************************************************)
\* the argument is a port number as main() reads it
ValidPort(arg) ==
  /\ arg # <<>>
  /\ ~ParseInt(arg).nan
  /\ ParseInt(arg).value \in 1..MaxPort
\* the ports findAvailablePort may return, given the first one and the
\* ports in use
FreeFrom(first, inUse) ==
  {p \in first..(first + PortRange - 1) : p <= MaxPort /\ p \notin inUse}

\* C40: the server listens on the port of its argument when that is a valid
\* port number and the port is free, and on the default port 8000 when the
\* argument is invalid or the port is occupied; it exits with an error only
\* when no port can be obtained.
C40_RequestedOrDefaultPort ==
  LET requested == ParseInt(launch.arg).value
      isFree == ValidPort(launch.arg) /\ requested \notin launch.inUse
  IN /\ (launch.pc = "listening" /\ isFree) => launch.port = requested
     /\ (launch.pc = "listening" /\ ~isFree) => launch.port = DefaultPort
     /\ (launch.exit = "error" /\ ~launch.taken) =>
          /\ ~isFree
          /\ DefaultPort \in launch.inUse

\* C40 as amended: the server listens on the first free port of the hundred
\* that start at the port of its argument, or at 8000 when the argument is
\* missing or invalid; it exits with an error when none of them is free or
\* when another process took the chosen port first.
C40_FirstFreePortFromRequested ==
  LET first == IF ValidPort(launch.arg) THEN ParseInt(launch.arg).value
               ELSE DefaultPort
      free == FreeFrom(first, launch.inUse)
  IN /\ launch.pc \in {"found", "listening"} =>
          /\ free # {}
          /\ \A p \in free : launch.port <= p
          /\ launch.port \in free
     /\ launch.exit = "error" => free = {} \/ launch.taken

\* the requested port and the one after it were in use and the server
\* listens on the next one
C40_Witness ==
  /\ launch.pc = "listening"
  /\ ValidPort(launch.arg)
  /\ launch.port = ParseInt(launch.arg).value + 2
  /\ launch.tried = 2

=============================================================================
